---- MODULE Spec2Model ----
(***************************************************************************)
(* Product-catalog backend: entity store with slug assignment on save,     *)
(* stock-derived product status, presentation mapper for products and the  *)
(* look-aside / page cache kept by the request handlers.                   *)
(*                                                                         *)
(* Text is modelled as a sequence of one-character strings, so that        *)
(* slugify, the "-<counter>" suffix and the cache-key templates are        *)
(* computed the way the code computes them.                                *)
(***************************************************************************)
EXTENDS Integers, Sequences, FiniteSets, TLC

VARIABLES categories, subcategories, products, blogs, nextId, cache, handled, rendered,
          spec_tables, spec_rows, banners, saving, health, caller, running

vars == <<categories, subcategories, products, blogs, nextId, cache, handled, rendered,
          spec_tables, spec_rows, banners, saving, health, caller, running>>

\* the specification tables of the products and their rows
specs == <<spec_tables, spec_rows>>

store == <<categories, subcategories, products, blogs, nextId, spec_tables, spec_rows>>

\* the hero banners, the saves in progress in concurrent requests, the result
\* of the last cache health check, the caller the requests come from, and the
\* requests that run step by step next to each other
others == <<banners, saving, health, caller, running>>

(***************************************************************************)
(* Bounds                                                                  *)
(***************************************************************************)
\* rows ever inserted, over all tables, in one behaviour
MaxCreates == 3
\* largest stock quantity a caller supplies
MaxStock == 1
\* specification tables and rows ever inserted in one behaviour
MaxSpecs == 2
\* hero banners ever inserted in one behaviour
MaxBanners == 2
\* entries the cache holds at once; a read that would add more is not taken
MaxEntries == 2

(***************************************************************************)
(* Text                                                                    *)
(***************************************************************************)
Blank == << >>

UpperToLower == [c \in {"F", "S"} |-> IF c = "F" THEN "f" ELSE "s"]

\* \w of the regular expressions (after lower-casing)
WordChars == {"f", "s", "i", "r", "e", "_", "0", "1", "2", "3", "4", "5", "6", "7", "8", "9"}

\* [-\s]
HyphenOrSpace == {"-", " "}

DigitChar == [d \in 0..9 |->
    CASE d = 0 -> "0" [] d = 1 -> "1" [] d = 2 -> "2" [] d = 3 -> "3"
      [] d = 4 -> "4" [] d = 5 -> "5" [] d = 6 -> "6" [] d = 7 -> "7"
      [] d = 8 -> "8" [] d = 9 -> "9"]

\* str(counter) of the f-string f"{base_slug}-{counter}"
RECURSIVE FormatInt(_)
FormatInt(n) ==
    IF n < 10 THEN <<DigitChar[n]>>
    ELSE FormatInt(n \div 10) \o <<DigitChar[n % 10]>>

\* value.lower()
Lower(s) == [i \in 1..Len(s) |->
    IF s[i] \in DOMAIN UpperToLower THEN UpperToLower[s[i]] ELSE s[i]]

\* re.sub(r'[^\w\s-]', '', value)
RECURSIVE DropOther(_)
DropOther(s) ==
    IF s = << >> THEN << >>
    ELSE IF Head(s) \in WordChars \cup HyphenOrSpace
         THEN <<Head(s)>> \o DropOther(Tail(s))
         ELSE DropOther(Tail(s))

\* re.sub(r'[-\s]+', '-', value)
RECURSIVE Collapse(_)
Collapse(s) ==
    IF s = << >> THEN << >>
    ELSE IF Head(s) \in HyphenOrSpace
         THEN IF Len(s) > 1 /\ s[2] \in HyphenOrSpace
              THEN Collapse(Tail(s))
              ELSE <<"-">> \o Collapse(Tail(s))
         ELSE <<Head(s)>> \o Collapse(Tail(s))

\* value.strip('-_')
RECURSIVE Strip(_)
Strip(s) ==
    IF s = << >> THEN << >>
    ELSE IF Head(s) \in {"-", "_"} THEN Strip(Tail(s))
    ELSE IF s[Len(s)] \in {"-", "_"} THEN Strip(SubSeq(s, 1, Len(s) - 1))
    ELSE s

\* django.utils.text.slugify (ASCII input)
slugify(value) == Strip(Collapse(DropOther(Lower(value))))

\* display names a caller supplies
Names == { <<"F", "s">>, <<"F", "s", "!">>, <<"!">>, <<"F", "s", " ", "1">> }

\* slug values a caller supplies; Blank is "no slug given"
SlugInputs == { Blank, <<"f", "s">> }

(***************************************************************************)
(* Entity store                                                            *)
(***************************************************************************)
\* Category.CATEGORY_TYPES
FIRE_SAFETY == "fire_safety"
ICT == "ict"
SOLAR == "solar"
CATEGORY_TYPES == {FIRE_SAFETY, ICT, SOLAR}

PUBLIC == "public"
LOGIN_REQUIRED == "login_required"
PRICE_VISIBILITY_CHOICES == {PUBLIC, LOGIN_REQUIRED}

\* None, and a value v, of a nullable field or of a method field's result
None == << >>
Some(v) == <<v>>

IN_STOCK == "in_stock"
OUT_OF_STOCK == "out_of_stock"
STOCK_STATUS_CHOICES == {IN_STOCK, OUT_OF_STOCK}

\* slugs held by the rows of a table other than row pk
\* (objects.filter(slug=slug).exclude(pk=self.pk))
SlugsExcluding(rows, pk) == { rows[i].slug : i \in DOMAIN rows \ {pk} }

\* the loop with the suffix appended to the previous candidate instead of the base
RECURSIVE SlugLoop_chained(_, _, _, _)
SlugLoop_chained(taken, base_slug, slug, counter) ==
    IF slug \in taken
    THEN SlugLoop_chained(taken, base_slug, slug \o <<"-">> \o FormatInt(counter), counter + 1)
    ELSE slug

\* the while loop of save(): base, base-1, base-2, ...
RECURSIVE SlugLoop(_, _, _, _)
SlugLoop(taken, base_slug, slug, counter) ==
    IF slug \in taken
    THEN SlugLoop(taken, base_slug, base_slug \o <<"-">> \o FormatInt(counter), counter + 1)
    ELSE slug

\* the slug column without unique=True
UniqueSlug_unconstrained(rows, pk, slug) == TRUE

\* unique=True of the slug column: the insert/update of row pk is accepted
UniqueSlug(rows, pk, slug) == slug \notin SlugsExcluding(rows, pk)

\* Category.save up to super().save(): the fields that are written
Category_save(pk, self) ==
    IF self.slug = Blank
    THEN [self EXCEPT !.slug =
            SlugLoop(SlugsExcluding(categories, pk), slugify(self.name), slugify(self.name), 1)]
    ELSE self

Subcategory_save(pk, self) ==
    IF self.slug = Blank
    THEN [self EXCEPT !.slug =
            SlugLoop(SlugsExcluding(subcategories, pk), slugify(self.name), slugify(self.name), 1)]
    ELSE self

\* save() keeping the status the caller set
StatusOfStock_kept(self) == self

\* the stock block of Product.save
StatusOfStock(self) ==
    IF self.stock > 0 THEN [self EXCEPT !.status = IN_STOCK]
    ELSE [self EXCEPT !.status = OUT_OF_STOCK]

Product_save(pk, self) ==
    StatusOfStock(
        IF self.slug = Blank
        THEN [self EXCEPT !.slug =
                SlugLoop(SlugsExcluding(products, pk), slugify(self.name), slugify(self.name), 1)]
        ELSE self)

\* Blog.save: the collision query does not exclude the row itself
Blog_save(pk, self) ==
    IF self.slug = Blank
    THEN [self EXCEPT !.slug =
            SlugLoop(SlugsExcluding(blogs, 0), slugify(self.title), slugify(self.title), 1)]
    ELSE self

\* rows inserted so far
Created == (nextId.category - 1) + (nextId.subcategory - 1)
           + (nextId.product - 1) + (nextId.blog - 1)

\* on_delete=CASCADE
SubcategoriesOf(c) == { s \in DOMAIN subcategories : subcategories[s].category = c }
ProductsOf(S) == { p \in DOMAIN products : products[p].subcategory \in S }

\* the specification tables of a set of products, the rows of a set of tables
TablesOf(P) == { t \in DOMAIN spec_tables : spec_tables[t].product \in P }
RowsOf(T) == { r \in DOMAIN spec_rows : spec_rows[r].table \in T }

Restrict(rows, gone) == [i \in DOMAIN rows \ gone |-> rows[i]]

(***************************************************************************)
(* Store operations (admin site, shell, import: Model.save / delete)       *)
(***************************************************************************)
Category_create(name, slug) ==
    /\ Created < MaxCreates
    /\ LET row == Category_save(0, [name |-> name, slug |-> slug, type |-> FIRE_SAFETY])
       IN /\ UniqueSlug(categories, 0, row.slug)
          /\ categories' = categories @@ (nextId.category :> row)
    /\ nextId' = [nextId EXCEPT !.category = @ + 1]
    /\ UNCHANGED <<others, specs, rendered, subcategories, products, blogs, cache, handled>>

Category_resave(pk, name) ==
    /\ pk \in DOMAIN categories
    /\ LET row == Category_save(pk, [categories[pk] EXCEPT !.name = name])
       IN /\ UniqueSlug(categories, pk, row.slug)
          /\ categories' = [categories EXCEPT ![pk] = row]
    /\ UNCHANGED <<others, specs, rendered, subcategories, products, blogs, nextId, cache, handled>>

\* the delete of a Category that takes no dependent row with it
Category_delete_alone(pk) ==
    /\ pk \in DOMAIN categories
    /\ categories' = Restrict(categories, {pk})
    /\ UNCHANGED <<others, specs, rendered, subcategories, products, blogs, nextId, cache, handled>>

Category_delete(pk) ==
    /\ pk \in DOMAIN categories
    /\ categories' = Restrict(categories, {pk})
    /\ subcategories' = Restrict(subcategories, SubcategoriesOf(pk))
    /\ products' = Restrict(products, ProductsOf(SubcategoriesOf(pk)))
    /\ spec_tables' = Restrict(spec_tables, TablesOf(ProductsOf(SubcategoriesOf(pk))))
    /\ spec_rows' = Restrict(spec_rows, RowsOf(TablesOf(ProductsOf(SubcategoriesOf(pk)))))
    /\ UNCHANGED <<others, rendered, blogs, nextId, cache, handled>>

Subcategory_create(category, name, slug) ==
    /\ Created < MaxCreates
    /\ category \in DOMAIN categories
    /\ LET row == Subcategory_save(0, [name |-> name, slug |-> slug, category |-> category])
       IN /\ UniqueSlug(subcategories, 0, row.slug)
          /\ subcategories' = subcategories @@ (nextId.subcategory :> row)
    /\ nextId' = [nextId EXCEPT !.subcategory = @ + 1]
    /\ UNCHANGED <<others, specs, rendered, categories, products, blogs, cache, handled>>

Subcategory_resave(pk, name) ==
    /\ pk \in DOMAIN subcategories
    /\ LET row == Subcategory_save(pk, [subcategories[pk] EXCEPT !.name = name])
       IN /\ UniqueSlug(subcategories, pk, row.slug)
          /\ subcategories' = [subcategories EXCEPT ![pk] = row]
    /\ UNCHANGED <<others, specs, rendered, categories, products, blogs, nextId, cache, handled>>

Subcategory_delete(pk) ==
    /\ pk \in DOMAIN subcategories
    /\ subcategories' = Restrict(subcategories, {pk})
    /\ products' = Restrict(products, ProductsOf({pk}))
    /\ spec_tables' = Restrict(spec_tables, TablesOf(ProductsOf({pk})))
    /\ spec_rows' = Restrict(spec_rows, RowsOf(TablesOf(ProductsOf({pk}))))
    /\ UNCHANGED <<others, rendered, categories, blogs, nextId, cache, handled>>

Product_create(subcategory, name, slug, stock, status) ==
    /\ Created < MaxCreates
    /\ subcategory \in DOMAIN subcategories
    /\ LET row == Product_save(0, [name |-> name, slug |-> slug, subcategory |-> subcategory,
                                   stock |-> stock, status |-> status, is_popular |-> FALSE,
                                   price |-> None, price_visibility |-> PUBLIC])
       IN /\ UniqueSlug(products, 0, row.slug)
          /\ products' = products @@ (nextId.product :> row)
    /\ nextId' = [nextId EXCEPT !.product = @ + 1]
    /\ UNCHANGED <<others, specs, rendered, categories, subcategories, blogs, cache, handled>>

Product_resave(pk, name, stock, status) ==
    /\ pk \in DOMAIN products
    /\ LET row == Product_save(pk, [products[pk] EXCEPT !.name = name, !.stock = stock,
                                                        !.status = status])
       IN /\ UniqueSlug(products, pk, row.slug)
          /\ products' = [products EXCEPT ![pk] = row]
    /\ UNCHANGED <<others, specs, rendered, categories, subcategories, blogs, nextId, cache, handled>>

Product_delete(pk) ==
    /\ pk \in DOMAIN products
    /\ products' = Restrict(products, {pk})
    /\ spec_tables' = Restrict(spec_tables, TablesOf({pk}))
    /\ spec_rows' = Restrict(spec_rows, RowsOf(TablesOf({pk})))
    /\ UNCHANGED <<others, rendered, categories, subcategories, blogs, nextId, cache, handled>>

Blog_create(title, slug) ==
    /\ Created < MaxCreates
    /\ LET row == Blog_save(0, [title |-> title, slug |-> slug])
       IN /\ UniqueSlug(blogs, 0, row.slug)
          /\ blogs' = blogs @@ (nextId.blog :> row)
    /\ nextId' = [nextId EXCEPT !.blog = @ + 1]
    /\ UNCHANGED <<others, specs, rendered, categories, subcategories, products, cache, handled>>

Blog_resave(pk, title) ==
    /\ pk \in DOMAIN blogs
    /\ LET row == Blog_save(pk, [blogs[pk] EXCEPT !.title = title])
       IN /\ UniqueSlug(blogs, pk, row.slug)
          /\ blogs' = [blogs EXCEPT ![pk] = row]
    /\ UNCHANGED <<others, specs, rendered, categories, subcategories, products, nextId, cache, handled>>

Blog_delete(pk) ==
    /\ pk \in DOMAIN blogs
    /\ blogs' = Restrict(blogs, {pk})
    /\ UNCHANGED <<others, specs, rendered, categories, subcategories, products, nextId, cache, handled>>


(***************************************************************************)
(* Cache layer (django.core.cache.cache, shared by the look-aside keys and *)
(* by cache_page)                                                          *)
(***************************************************************************)
\* settings.CACHE_KEYS: a template and the one argument it is bound to
Key(template, arg) == [kind |-> "key", name |-> template, arg |-> arg, vary |-> ""]

ALL_PRODUCTS == Key("products:all", Blank)
ALL_CATEGORIES == Key("categories:all", Blank)
ALL_SUBCATEGORIES == Key("subcategories:all", Blank)
POPULAR_PRODUCTS == Key("popular_products_list", Blank)
ProductDetailKey(slug) == Key("product:detail:{}", slug)
RelatedProductsKey(slug) == Key("products:related:{}", slug)
ProductsBySubcategoryKey(slug) == Key("products:subcategory:{}", slug)

\* cache_page: one entry per view, URL argument and varied request header
PageKey(view, arg, vary) == [kind |-> "page", name |-> view, arg |-> arg, vary |-> vary]

\* cache.delete_many
DeleteMany(c, keys) == [k \in DOMAIN c \ keys |-> c[k]]

\* cache.set
CacheSet(c, k, v) == [j \in DOMAIN c \cup {k} |-> IF j = k THEN v ELSE c[j]]

\* the keys invalidate_product_caches clears; NoRow stands for None
NoRow == [slug |-> <<"None">>]

ProductKeys(product, subcategory_slug) ==
    IF product = NoRow THEN {}
    ELSE { ProductDetailKey(product.slug), RelatedProductsKey(product.slug),
           ProductsBySubcategoryKey(subcategory_slug) }

SubcategoryKeys(subcategory) ==
    IF subcategory = NoRow THEN {} ELSE { ProductsBySubcategoryKey(subcategory.slug) }

\* product_subcategory_slug is product.subcategory.slug, read when the call is made
cache_keys_to_clear(product, product_subcategory_slug, subcategory) ==
    {ALL_PRODUCTS, ALL_CATEGORIES, ALL_SUBCATEGORIES, POPULAR_PRODUCTS}
        \cup ProductKeys(product, product_subcategory_slug)
        \cup SubcategoryKeys(subcategory)

invalidate_product_caches(c, product, product_subcategory_slug, subcategory) ==
    DeleteMany(c, cache_keys_to_clear(product, product_subcategory_slug, subcategory))

\* order_by('-id') and order_by('id') of a set of primary keys
RECURSIVE OrderDesc(_)
OrderDesc(S) ==
    IF S = {} THEN << >>
    ELSE LET m == CHOOSE x \in S : \A y \in S : y <= x
         IN <<m>> \o OrderDesc(S \ {m})

RECURSIVE OrderAsc(_)
OrderAsc(S) ==
    IF S = {} THEN << >>
    ELSE LET m == CHOOSE x \in S : \A y \in S : x <= y
         IN <<m>> \o OrderAsc(S \ {m})

\* the first n elements of a list (the [:8] slice)
Take(s, n) == SubSeq(s, 1, IF Len(s) < n THEN Len(s) ELSE n)

Range(s) == { s[i] : i \in DOMAIN s }

\* rows of a table holding a slug (filter(slug=...)); at most one by unique=True
BySlug(rows, slug) == { i \in DOMAIN rows : rows[i].slug = slug }

(***************************************************************************)
(* Requests                                                                *)
(***************************************************************************)
\* the request last handled and its outcome: the response status, the
\* product and subcategory slug the write was about, the ids of the body
Handled(op, status, pid, slug, sub, ids) ==
    [op |-> op, status |-> status, pid |-> pid, slug |-> slug, sub |-> sub, ids |-> ids]

NoSlug == <<"None">>

\* slugs a URL can carry (<slug:...> matches one or more of [-a-zA-Z0-9_])
RequestSlugs == { <<"f", "s">>, <<"f", "s", "-", "1">> }

\* names sent in request bodies
RequestNames == { <<"F", "s">>, <<"!">> }

\* the Authorization header of a read request
Viewers == {"anonymous", "token"}

Success(status) == status \in {200, 201, 204}

(***************************************************************************)
(* Serializers: request bodies and their validation                        *)
(***************************************************************************)
\* validated_data.get(field, default)
Field(data, f, default) == IF f \in DOMAIN data THEN data[f] ELSE default

\* bodies of Category and Subcategory writes: name, optionally slug
CategoryBodies ==
    { [name |-> n] : n \in RequestNames }
        \cup { [name |-> n, slug |-> s] : n \in RequestNames, s \in SlugInputs }

\* bodies of Product writes: name and subcategory pk (an existing row, or 0 for
\* one that does not exist), optionally stock or slug
\* (status is a SerializerMethodField: read-only, never in validated_data)
ProductBodies ==
    { [name |-> n, subcategory |-> s] :
        n \in RequestNames, s \in DOMAIN subcategories \cup {0} }
        \cup { [name |-> n, subcategory |-> s, stock |-> k] :
                 n \in {<<"F", "s">>}, s \in DOMAIN subcategories, k \in 0..MaxStock }
        \cup { [name |-> n, subcategory |-> s, slug |-> g] :
                 n \in {<<"F", "s">>}, s \in DOMAIN subcategories, g \in SlugInputs }

\* UniqueValidator of a ModelSerializer slug field; '' skips the validators
SlugValid(rows, pk, data) ==
    ("slug" \in DOMAIN data /\ data.slug # Blank) => UniqueSlug(rows, pk, data.slug)

\* type is a ChoiceField of the model's choices
CategorySerializer_is_valid(pk, data) ==
    /\ SlugValid(categories, pk, data)
    /\ "type" \in DOMAIN data => data.type \in CATEGORY_TYPES

SubcategorySerializer_is_valid(pk, data) == SlugValid(subcategories, pk, data)

\* subcategory = PrimaryKeyRelatedField(queryset=Subcategory.objects.all())
ProductSerializer_is_valid(pk, data) ==
    /\ SlugValid(products, pk, data)
    /\ data.subcategory \in DOMAIN subcategories

\* ModelSerializer.create: Model(**validated_data) with the field defaults
NewCategory(data) ==
    [name |-> data.name, slug |-> Field(data, "slug", Blank),
     type |-> Field(data, "type", FIRE_SAFETY)]

NewSubcategory(data, category) ==
    [name |-> data.name, slug |-> Field(data, "slug", Blank), category |-> category]

NewProduct(data) ==
    [name |-> data.name, slug |-> Field(data, "slug", Blank),
     subcategory |-> data.subcategory,
     stock |-> Field(data, "stock", 0), status |-> Field(data, "status", IN_STOCK),
     is_popular |-> FALSE,
     price |-> None, price_visibility |-> Field(data, "price_visibility", PUBLIC)]

\* ModelSerializer.update: setattr for every validated field
Updated(row, data) == [f \in DOMAIN row |-> IF f \in DOMAIN data THEN data[f] ELSE row[f]]

(***************************************************************************)
(* URL arguments                                                           *)
(***************************************************************************)
Digits == {"0", "1", "2", "3", "4", "5", "6", "7", "8", "9"}

\* str.isdigit()
isdigit(s) == s # << >> /\ \A i \in 1..Len(s) : s[i] \in Digits

DigitValue(c) == CHOOSE d \in 0..9 : DigitChar[d] = c

\* the integer a digit string is compared with in filter(id=...)
RECURSIVE ParseInt(_)
ParseInt(s) ==
    IF s = << >> THEN 0
    ELSE 10 * ParseInt(SubSeq(s, 1, Len(s) - 1)) + DigitValue(s[Len(s)])

\* kwargs of the routes that reach a create: the slug route, the nested
\* router route (pk or slug in the pk position) and the route with neither
ParentKwargs ==
    { [slug |-> g, pk |-> NoSlug] : g \in RequestSlugs }
        \cup { [slug |-> NoSlug, pk |-> g] : g \in {<<"1">>, <<"f", "s">>} }
        \cup { [slug |-> NoSlug, pk |-> NoSlug] }

\* the parent lookup of perform_create: the set of rows found, and whether
\* a parent was named at all
ParentNamed(kw) == kw.slug # NoSlug \/ kw.pk # NoSlug

ParentFound(rows, kw) ==
    IF kw.slug # NoSlug THEN BySlug(rows, kw.slug)
    ELSE IF isdigit(kw.pk) THEN { i \in DOMAIN rows : i = ParseInt(kw.pk) }
    ELSE BySlug(rows, kw.pk)

SubcategorySlug(pk) == subcategories[pk].slug

(***************************************************************************)
(* Request handlers: writes                                                *)
(***************************************************************************)
\* a request that ends in an error response: op names the kind of request
Fail(op, status) ==
    /\ handled' = Handled(op, status, 0, NoSlug, NoSlug, << >>)
    /\ UNCHANGED <<others, rendered, store, cache>>

\* a request that ends in an error response because the category or the
\* subcategory it names does not exist
NotFound(op, status, entity) ==
    /\ handled' = [op |-> op, status |-> status, pid |-> 0, slug |-> NoSlug, sub |-> NoSlug,
                   ids |-> << >>, missing |-> entity]
    /\ UNCHANGED <<others, rendered, store, cache>>

\* POST categories/
CategoryViewSet_create(data, storeOk) ==
    /\ Created < MaxCreates
    /\ IF ~CategorySerializer_is_valid(0, data) THEN Fail("category_write", 400)
       ELSE IF ~storeOk THEN Fail("category_write", 500)
       ELSE /\ categories' = categories @@ (nextId.category :> Category_save(0, NewCategory(data)))
            /\ nextId' = [nextId EXCEPT !.category = @ + 1]
            /\ cache' = invalidate_product_caches(cache, NoRow, NoSlug, NoRow)
            /\ handled' = Handled("category_create", 201, 0, NoSlug, NoSlug, << >>)
            /\ UNCHANGED <<others, specs, rendered, subcategories, products, blogs>>

\* PUT/PATCH categories/<slug>/
CategoryViewSet_update(slug, data, storeOk) ==
    LET found == BySlug(categories, slug) IN
    IF found = {} THEN NotFound("category_write", 400, "category")
    ELSE LET pk == CHOOSE i \in found : TRUE IN
         IF ~CategorySerializer_is_valid(pk, data) THEN Fail("category_write", 400)
         ELSE IF ~storeOk THEN Fail("category_write", 500)
         ELSE /\ categories' = [categories EXCEPT
                                   ![pk] = Category_save(pk, Updated(categories[pk], data))]
              /\ cache' = invalidate_product_caches(cache, NoRow, NoSlug, NoRow)
              /\ handled' = Handled("category_update", 200, 0, NoSlug, NoSlug, << >>)
              /\ UNCHANGED <<others, specs, rendered, subcategories, products, blogs, nextId>>

\* DELETE categories/<slug>/
CategoryViewSet_destroy(slug, storeOk) ==
    LET found == BySlug(categories, slug) IN
    IF found = {} THEN NotFound("category_write", 400, "category")
    ELSE IF ~storeOk THEN Fail("category_write", 500)
    ELSE LET pk == CHOOSE i \in found : TRUE IN
         /\ categories' = Restrict(categories, {pk})
         /\ subcategories' = Restrict(subcategories, SubcategoriesOf(pk))
         /\ products' = Restrict(products, ProductsOf(SubcategoriesOf(pk)))
         /\ spec_tables' = Restrict(spec_tables, TablesOf(ProductsOf(SubcategoriesOf(pk))))
         /\ spec_rows' = Restrict(spec_rows, RowsOf(TablesOf(ProductsOf(SubcategoriesOf(pk)))))
         /\ cache' = invalidate_product_caches(cache, NoRow, NoSlug, NoRow)
         /\ handled' = Handled("category_destroy", 204, 0, NoSlug, NoSlug, << >>)
         /\ UNCHANGED <<others, rendered, blogs, nextId>>

\* POST categories/<category_slug>/subcategories/, categories/<category_pk>/subcategories/,
\* subcategories/
SubcategoryViewSet_create(kw, data, storeOk) ==
    /\ Created < MaxCreates
    /\ IF ~SubcategorySerializer_is_valid(0, data) THEN Fail("subcategory_write", 400)
       ELSE IF ~ParentNamed(kw) THEN Fail("subcategory_write", 400)
       ELSE IF ParentFound(categories, kw) = {} THEN NotFound("subcategory_write", 404, "category")
       ELSE IF ~storeOk THEN Fail("subcategory_write", 500)
       ELSE LET category == CHOOSE i \in ParentFound(categories, kw) : TRUE IN
            /\ subcategories' = subcategories @@
                   (nextId.subcategory :> Subcategory_save(0, NewSubcategory(data, category)))
            /\ nextId' = [nextId EXCEPT !.subcategory = @ + 1]
            /\ cache' = invalidate_product_caches(cache, NoRow, NoSlug, NoRow)
            /\ handled' = Handled("subcategory_create", 201, 0, NoSlug, NoSlug, << >>)
            /\ UNCHANGED <<others, specs, rendered, categories, products, blogs>>

\* get_queryset / get_object of SubcategoryViewSet: the rows the lookup finds
SubcategoryViewSet_get_object(category_slug, slug) ==
    IF category_slug = NoSlug THEN BySlug(subcategories, slug)
    ELSE { i \in BySlug(subcategories, slug) :
             subcategories[i].category \in BySlug(categories, category_slug) }

\* PUT/PATCH subcategories/<slug>/, categories/<category_slug>/subcategories/<slug>/
SubcategoryViewSet_update(category_slug, slug, data, storeOk) ==
    LET found == SubcategoryViewSet_get_object(category_slug, slug) IN
    IF found = {} THEN NotFound("subcategory_write", 400, "subcategory")
    ELSE LET pk == CHOOSE i \in found : TRUE IN
         IF ~SubcategorySerializer_is_valid(pk, data) THEN Fail("subcategory_write", 400)
         ELSE IF ~storeOk THEN Fail("subcategory_write", 500)
         ELSE /\ subcategories' = [subcategories EXCEPT
                                      ![pk] = Subcategory_save(pk, Updated(subcategories[pk], data))]
              /\ cache' = invalidate_product_caches(cache, NoRow, NoSlug, NoRow)
              /\ handled' = Handled("subcategory_update", 200, 0, NoSlug, NoSlug, << >>)
              /\ UNCHANGED <<others, specs, rendered, categories, products, blogs, nextId>>

\* DELETE subcategories/<slug>/, categories/<category_slug>/subcategories/<slug>/
SubcategoryViewSet_destroy(category_slug, slug, storeOk) ==
    LET found == SubcategoryViewSet_get_object(category_slug, slug) IN
    IF found = {} THEN NotFound("subcategory_write", 400, "subcategory")
    ELSE IF ~storeOk THEN Fail("subcategory_write", 500)
    ELSE LET pk == CHOOSE i \in found : TRUE IN
         /\ subcategories' = Restrict(subcategories, {pk})
         /\ products' = Restrict(products, ProductsOf({pk}))
         /\ spec_tables' = Restrict(spec_tables, TablesOf(ProductsOf({pk})))
         /\ spec_rows' = Restrict(spec_rows, RowsOf(TablesOf(ProductsOf({pk}))))
         /\ cache' = invalidate_product_caches(cache, NoRow, NoSlug, NoRow)
         /\ handled' = Handled("subcategory_destroy", 204, 0, NoSlug, NoSlug, << >>)
         /\ UNCHANGED <<others, rendered, categories, blogs, nextId>>

\* the defaults perform_create writes into validated_data
perform_create_defaults(data) ==
    LET withStock == IF "stock" \in DOMAIN data THEN data ELSE data @@ ("stock" :> 1)
    IN IF "status" \in DOMAIN withStock THEN withStock
       ELSE withStock @@ ("status" :> IN_STOCK)

\* perform_create clearing the caches before it looks up the subcategory and saves
ProductViewSet_perform_create_eager(kw, data, storeOk) ==
    IF ~ParentNamed(kw) \/ ParentFound(subcategories, kw) = {} \/ ~storeOk
    THEN /\ handled' = Handled("product_write",
                               IF ~ParentNamed(kw) THEN 400
                               ELSE IF ParentFound(subcategories, kw) = {} THEN 404 ELSE 500,
                               0, NoSlug, NoSlug, << >>)
         /\ cache' = invalidate_product_caches(cache, NoRow, NoSlug, NoRow)
         /\ UNCHANGED <<others, rendered, store>>
    ELSE LET subcategory == CHOOSE i \in ParentFound(subcategories, kw) : TRUE
             product == Product_save(0, [NewProduct(perform_create_defaults(data))
                                           EXCEPT !.subcategory = subcategory])
         IN /\ products' = products @@ (nextId.product :> product)
            /\ nextId' = [nextId EXCEPT !.product = @ + 1]
            /\ cache' = invalidate_product_caches(cache, product, SubcategorySlug(subcategory),
                                                  subcategories[subcategory])
            /\ handled' = Handled("product_create", 201, nextId.product, product.slug,
                                  SubcategorySlug(subcategory), << >>)
            /\ UNCHANGED <<others, specs, rendered, categories, subcategories, blogs>>

\* ProductViewSet.perform_create, after is_valid
ProductViewSet_perform_create(kw, data, storeOk) ==
    IF ~ParentNamed(kw) THEN Fail("product_write", 400)
    ELSE IF ParentFound(subcategories, kw) = {} THEN NotFound("product_write", 404, "subcategory")
    ELSE IF ~storeOk THEN Fail("product_write", 500)
    ELSE LET subcategory == CHOOSE i \in ParentFound(subcategories, kw) : TRUE
             product == Product_save(0, [NewProduct(perform_create_defaults(data))
                                           EXCEPT !.subcategory = subcategory])
         IN /\ products' = products @@ (nextId.product :> product)
            /\ nextId' = [nextId EXCEPT !.product = @ + 1]
            /\ cache' = invalidate_product_caches(cache, product, SubcategorySlug(subcategory),
                                                  subcategories[subcategory])
            /\ handled' = Handled("product_create", 201, nextId.product, product.slug,
                                  SubcategorySlug(subcategory), << >>)
            /\ UNCHANGED <<others, specs, rendered, categories, subcategories, blogs>>

\* POST subcategories/<subcategory_slug>/products/create/,
\* subcategories/<subcategory_pk>/products/, products/
ProductViewSet_create(kw, data, storeOk) ==
    /\ Created < MaxCreates
    /\ IF ~ProductSerializer_is_valid(0, data) THEN Fail("product_write", 400)
       ELSE ProductViewSet_perform_create(kw, data, storeOk)

\* perform_update of ProductViewSet and of ProductAdminDetailView
Product_perform_update(op, pk, data, storeOk) ==
    IF ~storeOk THEN Fail("product_write", 500)
    ELSE LET product == Product_save(pk, Updated(products[pk], data)) IN
         /\ products' = [products EXCEPT ![pk] = product]
         /\ cache' = invalidate_product_caches(cache, product,
                         SubcategorySlug(product.subcategory), subcategories[product.subcategory])
         /\ handled' = Handled(op, 200, pk, product.slug,
                               SubcategorySlug(product.subcategory), << >>)
         /\ UNCHANGED <<others, specs, rendered, categories, subcategories, blogs, nextId>>

\* perform_destroy of ProductViewSet and of ProductAdminDetailView
Product_perform_destroy(op, pk, storeOk) ==
    IF ~storeOk THEN Fail("product_write", 500)
    ELSE LET subcategory == subcategories[products[pk].subcategory] IN
         /\ products' = Restrict(products, {pk})
         /\ spec_tables' = Restrict(spec_tables, TablesOf({pk}))
         /\ spec_rows' = Restrict(spec_rows, RowsOf(TablesOf({pk})))
         /\ cache' = invalidate_product_caches(cache, NoRow, NoSlug, subcategory)
         /\ handled' = Handled(op, 204, pk, products[pk].slug, subcategory.slug, << >>)
         /\ UNCHANGED <<others, rendered, categories, subcategories, blogs, nextId>>

\* PUT/PATCH products/<slug>/
ProductViewSet_update(slug, data, storeOk) ==
    LET found == BySlug(products, slug) IN
    IF found = {} THEN Fail("product_write", 404)
    ELSE LET pk == CHOOSE i \in found : TRUE IN
         IF ~ProductSerializer_is_valid(pk, data) THEN Fail("product_write", 400)
         ELSE Product_perform_update("product_update", pk, data, storeOk)

\* DELETE products/<slug>/
ProductViewSet_destroy(slug, storeOk) ==
    LET found == BySlug(products, slug) IN
    IF found = {} THEN Fail("product_write", 404)
    ELSE Product_perform_destroy("product_destroy", CHOOSE i \in found : TRUE, storeOk)

\* PUT/PATCH on ProductAdminDetailView (lookup by pk)
ProductAdminDetailView_update(pk, data, storeOk) ==
    IF pk \notin DOMAIN products THEN Fail("product_write", 404)
    ELSE IF ~ProductSerializer_is_valid(pk, data) THEN Fail("product_write", 400)
    ELSE Product_perform_update("product_update", pk, data, storeOk)

\* DELETE on ProductAdminDetailView (lookup by pk)
ProductAdminDetailView_destroy(pk, storeOk) ==
    IF pk \notin DOMAIN products THEN Fail("product_write", 404)
    ELSE Product_perform_destroy("product_destroy", pk, storeOk)

(***************************************************************************)
(* Request handlers: reads                                                 *)
(***************************************************************************)
\* get_cached_queryset: the data returned and the cache afterwards
get_cached_queryset_data(c, cache_key, fetched) ==
    IF cache_key \in DOMAIN c THEN c[cache_key] ELSE fetched

get_cached_queryset_cache(c, cache_key, fetched) ==
    IF cache_key \in DOMAIN c THEN c ELSE CacheSet(c, cache_key, fetched)

\* a view under cache_page: a stored page answers the request, otherwise the
\* view runs (its body ids and the cache it leaves) and a 200 is stored
CachedPage(op, page, arg, ids, c) ==
    IF page \in DOMAIN cache
    THEN /\ handled' = Handled(op, 200, 0, arg, arg, cache[page])
         /\ UNCHANGED <<others, rendered, store, cache>>
    ELSE /\ Cardinality(DOMAIN c \cup {page}) <= MaxEntries
         /\ handled' = Handled(op, 200, 0, arg, arg, ids)
         /\ cache' = CacheSet(c, page, ids)
         /\ UNCHANGED <<others, rendered, store>>

\* fetch_products of ProductsBySubcategoryView
fetch_products(subcategory_slug) ==
    OrderDesc({ p \in DOMAIN products : SubcategorySlug(products[p].subcategory) = subcategory_slug })

\* GET subcategories/<subcategory_slug>/products/ (cache_page, vary on Authorization)
ProductsBySubcategoryView_get(subcategory_slug, viewer) ==
    LET cache_key == ProductsBySubcategoryKey(subcategory_slug)
        fetched == fetch_products(subcategory_slug)
    IN CachedPage("products_by_subcategory",
                  PageKey("products-by-subcategory", subcategory_slug, viewer),
                  subcategory_slug,
                  get_cached_queryset_data(cache, cache_key, fetched),
                  get_cached_queryset_cache(cache, cache_key, fetched))

\* fetch_related of ProductRelatedView
fetch_related(pk) ==
    Take(OrderDesc({ p \in DOMAIN products :
                       p # pk /\ products[p].subcategory = products[pk].subcategory }), 8)

\* GET products/<product_slug>/related/ (cache_page)
ProductRelatedView_get(product_slug) ==
    LET page == PageKey("product-related", product_slug, "") IN
    IF page \notin DOMAIN cache /\ BySlug(products, product_slug) = {}
    THEN Fail("product_related", 404)
    ELSE LET cache_key == RelatedProductsKey(product_slug)
             fetched == IF BySlug(products, product_slug) = {} THEN << >>
                        ELSE fetch_related(CHOOSE i \in BySlug(products, product_slug) : TRUE)
         IN CachedPage("product_related", page, product_slug,
                       get_cached_queryset_data(cache, cache_key, fetched),
                       get_cached_queryset_cache(cache, cache_key, fetched))

\* GET products/all_categories/ (cache_page)
ProductViewSet_all_categories ==
    LET fetched == OrderAsc(DOMAIN categories) IN
    CachedPage("all_categories", PageKey("all-categories", Blank, ""), Blank,
               get_cached_queryset_data(cache, ALL_CATEGORIES, fetched),
               get_cached_queryset_cache(cache, ALL_CATEGORIES, fetched))

\* GET products/all_subcategories/ (cache_page)
ProductViewSet_all_subcategories ==
    LET fetched == OrderAsc(DOMAIN subcategories) IN
    CachedPage("all_subcategories", PageKey("all-subcategories", Blank, ""), Blank,
               get_cached_queryset_data(cache, ALL_SUBCATEGORIES, fetched),
               get_cached_queryset_cache(cache, ALL_SUBCATEGORIES, fetched))

\* an entry reaches its timeout (900 s) and is dropped
Expire(k) ==
    /\ k \in DOMAIN cache
    /\ cache' = DeleteMany(cache, {k})
    /\ UNCHANGED <<others, rendered, store, handled>>

(***************************************************************************)
(* Presentation mapper (ProductSerializer)                                 *)
(***************************************************************************)
\* bool(request and getattr(request, 'user', None) and request.user.is_authenticated)
user_is_auth(request) ==
    request.present /\ request.has_user /\ request.is_authenticated

\* float(obj.price): the price, held in cents, as a number
float(price) == price[1]

get_price(obj, request) ==
    IF obj.price_visibility = LOGIN_REQUIRED /\ ~user_is_auth(request) THEN None
    ELSE IF obj.price # None THEN Some(float(obj.price)) ELSE Some(0)

\* the flag taken from the product alone, whoever is viewing
get_price_requires_login_any_viewer(obj, request) ==
    obj.price_visibility = LOGIN_REQUIRED

get_price_requires_login(obj, request) ==
    IF obj.price_visibility = LOGIN_REQUIRED /\ ~user_is_auth(request) THEN TRUE
    ELSE FALSE

get_status(obj) == obj.status

\* the fields of ProductSerializer's output that depend on the viewer or on stock
to_representation(obj, request) ==
    [price |-> get_price(obj, request),
     price_requires_login |-> get_price_requires_login(obj, request),
     status |-> get_status(obj),
     stock |-> obj.stock]

\* prices, in cents
Prices == {None, Some(0), Some(1), Some(1999)}

\* the serializer context: no request, a request without a user, an
\* anonymous user, an authenticated user
Requests ==
    { [present |-> FALSE, has_user |-> FALSE, is_authenticated |-> FALSE],
      [present |-> TRUE, has_user |-> FALSE, is_authenticated |-> FALSE],
      [present |-> TRUE, has_user |-> TRUE, is_authenticated |-> FALSE],
      [present |-> TRUE, has_user |-> TRUE, is_authenticated |-> TRUE] }

\* Product instances handed to the serializer
ProductObjects ==
    [stock : 0..MaxStock, status : STOCK_STATUS_CHOICES,
     price : Prices, price_visibility : PRICE_VISIBILITY_CHOICES]

NotRendered == [done |-> FALSE]

\* ProductSerializer(obj, context={'request': request}).data
Serialize ==
    /\ rendered.done = FALSE
    /\ "obj" \in DOMAIN rendered
    /\ rendered' = [done |-> TRUE, obj |-> rendered.obj, request |-> rendered.request,
                    data |-> to_representation(rendered.obj, rendered.request)]
    /\ UNCHANGED <<others, store, cache, handled>>

NoRequest == Handled("none", 0, 0, NoSlug, NoSlug, << >>)

\* requests whose save() is between its collision query and its insert
Procs == {1, 2}

Idle == [p \in Procs |-> [pc |-> "idle"]]

\* no health check has run
NotChecked == [status |-> "none"]

Init ==
    /\ categories = << >>
    /\ subcategories = << >>
    /\ products = << >>
    /\ blogs = << >>
    /\ nextId = [category |-> 1, subcategory |-> 1, product |-> 1, blog |-> 1,
                 spec_table |-> 1, spec_row |-> 1, banner |-> 1]
    /\ cache = << >>
    /\ handled = NoRequest
    /\ spec_tables = << >>
    /\ spec_rows = << >>
    /\ banners = << >>
    /\ saving = Idle
    /\ health = NotChecked
    /\ caller = "staff"
    /\ running = Idle
    /\ rendered = NotRendered

Next ==
    \/ \E name \in Names, slug \in SlugInputs : Category_create(name, slug)
    \/ \E pk \in DOMAIN categories, name \in Names : Category_resave(pk, name)
    \/ \E pk \in DOMAIN categories : Category_delete(pk)
    \/ \E c \in DOMAIN categories, name \in Names, slug \in SlugInputs :
          Subcategory_create(c, name, slug)
    \/ \E pk \in DOMAIN subcategories, name \in Names : Subcategory_resave(pk, name)
    \/ \E pk \in DOMAIN subcategories : Subcategory_delete(pk)
    \/ \E s \in DOMAIN subcategories, name \in Names, slug \in SlugInputs,
          stock \in 0..MaxStock, status \in STOCK_STATUS_CHOICES :
          Product_create(s, name, slug, stock, status)
    \/ \E pk \in DOMAIN products, name \in Names,
          stock \in 0..MaxStock, status \in STOCK_STATUS_CHOICES :
          Product_resave(pk, name, stock, status)
    \/ \E pk \in DOMAIN products : Product_delete(pk)
    \/ \E title \in Names, slug \in SlugInputs : Blog_create(title, slug)
    \/ \E pk \in DOMAIN blogs, title \in Names : Blog_resave(pk, title)
    \/ \E pk \in DOMAIN blogs : Blog_delete(pk)
    \/ \E kw \in ParentKwargs, data \in ProductBodies, ok \in BOOLEAN :
          ProductViewSet_create(kw, data, ok)

Spec == Init /\ [][Next]_vars

(***************************************************************************)
(* The REST API: the request handlers over an initially empty catalog      *)
(***************************************************************************)
NextApi ==
    \/ \E data \in CategoryBodies, ok \in BOOLEAN : CategoryViewSet_create(data, ok)
    \/ \E g \in RequestSlugs, data \in CategoryBodies, ok \in BOOLEAN :
          CategoryViewSet_update(g, data, ok)
    \/ \E g \in RequestSlugs, ok \in BOOLEAN : CategoryViewSet_destroy(g, ok)
    \/ \E kw \in ParentKwargs, data \in CategoryBodies, ok \in BOOLEAN :
          SubcategoryViewSet_create(kw, data, ok)
    \/ \E c \in RequestSlugs \cup {NoSlug}, g \in RequestSlugs, data \in CategoryBodies,
          ok \in BOOLEAN : SubcategoryViewSet_update(c, g, data, ok)
    \/ \E c \in RequestSlugs \cup {NoSlug}, g \in RequestSlugs, ok \in BOOLEAN :
          SubcategoryViewSet_destroy(c, g, ok)
    \/ \E kw \in ParentKwargs, data \in ProductBodies, ok \in BOOLEAN :
          ProductViewSet_create(kw, data, ok)
    \/ \E g \in RequestSlugs, data \in ProductBodies, ok \in BOOLEAN :
          ProductViewSet_update(g, data, ok)
    \/ \E g \in RequestSlugs, ok \in BOOLEAN : ProductViewSet_destroy(g, ok)
    \/ \E pk \in 1..nextId.product, data \in ProductBodies, ok \in BOOLEAN :
          ProductAdminDetailView_update(pk, data, ok)
    \/ \E pk \in 1..nextId.product, ok \in BOOLEAN : ProductAdminDetailView_destroy(pk, ok)
    \/ \E g \in RequestSlugs, viewer \in Viewers : ProductsBySubcategoryView_get(g, viewer)
    \/ \E g \in RequestSlugs : ProductRelatedView_get(g)
    \/ ProductViewSet_all_categories
    \/ ProductViewSet_all_subcategories
    \/ \E k \in DOMAIN cache : Expire(k)

SpecApi == Init /\ [][NextApi]_vars

(***************************************************************************)
(* The presentation mapper applied to any product instance and viewer      *)
(***************************************************************************)
InitView ==
    /\ categories = << >>
    /\ subcategories = << >>
    /\ products = << >>
    /\ blogs = << >>
    /\ nextId = [category |-> 1, subcategory |-> 1, product |-> 1, blog |-> 1,
                 spec_table |-> 1, spec_row |-> 1, banner |-> 1]
    /\ cache = << >>
    /\ handled = NoRequest
    /\ spec_tables = << >>
    /\ spec_rows = << >>
    /\ banners = << >>
    /\ saving = Idle
    /\ health = NotChecked
    /\ caller = "staff"
    /\ running = Idle
    /\ rendered \in { [done |-> FALSE, obj |-> o, request |-> r] :
                        o \in ProductObjects, r \in Requests }

NextView == Serialize

SpecView == InitView /\ [][NextView]_vars

(***************************************************************************)
(* Creation and deletion only, every slug assigned by save()               *)
(***************************************************************************)
NextCreateDelete ==
    \/ \E name \in Names : Category_create(name, Blank)
    \/ \E pk \in DOMAIN categories : Category_delete(pk)
    \/ \E c \in DOMAIN categories, name \in Names : Subcategory_create(c, name, Blank)
    \/ \E pk \in DOMAIN subcategories : Subcategory_delete(pk)
    \/ \E s \in DOMAIN subcategories, name \in Names, stock \in 0..MaxStock :
          Product_create(s, name, Blank, stock, IN_STOCK)
    \/ \E pk \in DOMAIN products : Product_delete(pk)
    \/ \E title \in Names : Blog_create(title, Blank)
    \/ \E pk \in DOMAIN blogs : Blog_delete(pk)

SpecCreateDelete == Init /\ [][NextCreateDelete]_vars

(***************************************************************************)
(* Properties of the entity store                                          *)
(***************************************************************************)
\* name and slug of the rows of each table (a Blog is named by its title)
Slugged(rows) == [i \in DOMAIN rows |-> [name |-> rows[i].name, slug |-> rows[i].slug]]

BlogSlugged == [i \in DOMAIN blogs |-> [name |-> blogs[i].title, slug |-> blogs[i].slug]]

Tables == <<Slugged(categories), Slugged(subcategories), Slugged(products), BlogSlugged>>

SameBase(rows) ==
    { p \in (DOMAIN rows) \X (DOMAIN rows) :
        p[1] < p[2] /\ slugify(rows[p[1]].name) = slugify(rows[p[2]].name) }

\* C1: no two persisted records of the same entity type hold the same slug.
SlugUniquePerType ==
    \A t \in DOMAIN Tables : \A i, j \in DOMAIN Tables[t] :
        i # j => Tables[t][i].slug # Tables[t][j].slug

\* C1 witness: two records of one type whose names normalize to the same base
\* token are both persisted.
TwoRowsSameBase == \E t \in DOMAIN Tables : SameBase(Tables[t]) # {}

\* C2: every persisted Category, Subcategory, Product and Blog has a non-empty
\* slug, also when its display name is only punctuation/whitespace.
SlugNeverBlank ==
    \A t \in DOMAIN Tables : \A i \in DOMAIN Tables[t] : Tables[t][i].slug # Blank

\* the number n of a slug of the form base-n, 0 for the base itself, and
\* -1 for a slug of neither form
SuffixOf(slug, base) ==
    IF slug = base THEN 0
    ELSE IF \E n \in 1..(MaxCreates + 1) : slug = base \o <<"-">> \o FormatInt(n)
         THEN CHOOSE n \in 1..(MaxCreates + 1) : slug = base \o <<"-">> \o FormatInt(n)
         ELSE 0 - 1

\* rows created earlier (lower id) hold the lower-numbered slug of their base
InCreationOrder(rows) ==
    \A p \in SameBase(rows) :
        LET base == slugify(rows[p[1]].name)
            first == SuffixOf(rows[p[1]].slug, base)
            second == SuffixOf(rows[p[2]].slug, base)
        IN first >= 0 /\ second >= 0 /\ first < second

\* no row of the table has been deleted: the ids in use are 1..n
NothingDeleted(rows, n) == DOMAIN rows = 1..n

RowsInserted == <<nextId.category - 1, nextId.subcategory - 1,
                  nextId.product - 1, nextId.blog - 1>>

\* C3 as stated: after any sequence of creates and deletes, same-base records
\* of a type hold base, base-1, base-2, ... in creation order.
SlugsInCreationOrder == \A t \in DOMAIN Tables : InCreationOrder(Tables[t])

\* C3 amended: the creation order of the slugs holds in a table none of whose
\* rows has been deleted.
SlugsInCreationOrderWithoutDelete ==
    \A t \in DOMAIN Tables :
        NothingDeleted(Tables[t], RowsInserted[t]) => InCreationOrder(Tables[t])

\* C3 witness: a table without deletions holds three records of the same base.
ThreeRowsSameBaseNoDelete ==
    \E t \in DOMAIN Tables :
        /\ NothingDeleted(Tables[t], RowsInserted[t])
        /\ \E i, j, k \in DOMAIN Tables[t] :
              /\ i < j /\ j < k
              /\ <<i, j>> \in SameBase(Tables[t])
              /\ <<j, k>> \in SameBase(Tables[t])

\* a row persisted before and after a step holds the same slug
SlugsKept ==
    /\ \A i \in DOMAIN categories \cap DOMAIN categories' :
          categories'[i].slug = categories[i].slug
    /\ \A i \in DOMAIN subcategories \cap DOMAIN subcategories' :
          subcategories'[i].slug = subcategories[i].slug
    /\ \A i \in DOMAIN products \cap DOMAIN products' :
          products'[i].slug = products[i].slug
    /\ \A i \in DOMAIN blogs \cap DOMAIN blogs' : blogs'[i].slug = blogs[i].slug

\* C4: re-saving a persisted record with a changed display name leaves its
\* slug unchanged, for any number of renames.
SlugUnchangedByResave == [][SlugsKept]_vars

\* C5: every persisted Product has status in_stock iff its stock > 0.
StatusFollowsStock ==
    \A p \in DOMAIN products : (products[p].status = IN_STOCK) <=> (products[p].stock > 0)

\* C5 witness: the API create path, which pre-fills status in_stock, has
\* persisted a product whose stock is 0.
ApiCreatedWithZeroStock ==
    /\ handled.op = "product_create"
    /\ handled.status = 201
    /\ handled.pid \in DOMAIN products
    /\ products[handled.pid].stock = 0
    /\ products[handled.pid].status = OUT_OF_STOCK

(***************************************************************************)
(* Properties of the presentation mapper                                   *)
(***************************************************************************)
\* C6: for any stock and stored status, the client view's status is in_stock
\* iff stock > 0.
ViewStatusFollowsStock ==
    rendered.done => ((rendered.data.status = IN_STOCK) <=> (rendered.obj.stock > 0))

\* the viewer of a rendering is logged in
ViewerAuthenticated ==
    rendered.request.present /\ rendered.request.has_user /\ rendered.request.is_authenticated

\* C7: a login_required product shown to an unauthenticated viewer has price
\* null and price_requires_login true; in every other case the flag is false
\* and price is the stored price, or 0.00 when the stored price is null.
PriceVisibility ==
    rendered.done =>
        IF rendered.obj.price_visibility = LOGIN_REQUIRED /\ ~ViewerAuthenticated
        THEN rendered.data.price = None /\ rendered.data.price_requires_login = TRUE
        ELSE /\ rendered.data.price_requires_login = FALSE
             /\ rendered.data.price =
                    IF rendered.obj.price = None THEN <<0>> ELSE rendered.obj.price

\* C7 witness: a priced login_required product has been rendered for a viewer
\* who is not logged in, and one for a viewer who is.
PricedProductRenderedForAnonymous ==
    /\ rendered.done
    /\ rendered.obj.price_visibility = LOGIN_REQUIRED
    /\ rendered.obj.price = <<1999>>
    /\ rendered.request.has_user
    /\ ~ViewerAuthenticated

(***************************************************************************)
(* Properties of the request handlers and the cache                        *)
(***************************************************************************)
ProductWrites == {"product_create", "product_update", "product_destroy"}

FailedWrites == {"category_write", "subcategory_write", "product_write"}

\* C8: the first read of the products-by-subcategory endpoint of S after a
\* product was created under S returns a list that includes the new product.
ListFreshAfterCreate ==
    [][(/\ handled.op = "product_create"
        /\ handled.status = 201
        /\ handled'.op = "products_by_subcategory"
        /\ handled'.slug = handled.sub)
       => handled.pid \in Range(handled'.ids)]_vars

\* C9: when a Product create, update or delete has returned, the cache holds
\* none of: the all-categories and all-subcategories keys, the product's
\* detail and related-products keys, its subcategory's product-list key.
ProductWriteClearsKeys ==
    (handled.op \in ProductWrites /\ Success(handled.status)) =>
        { ALL_CATEGORIES, ALL_SUBCATEGORIES,
          ProductDetailKey(handled.slug), RelatedProductsKey(handled.slug),
          ProductsBySubcategoryKey(handled.sub) } \cap DOMAIN cache = {}

\* C10: a write request that fails (validation error, missing parent, store
\* error) leaves the store and every cache entry as they were.
FailedWriteTouchesNothing ==
    [][(handled' # handled /\ handled'.op \in FailedWrites /\ ~Success(handled'.status))
       => (cache' = cache /\ store' = store)]_vars

\* C10 witness: a write has failed while the cache held a key that a
\* successful write clears.
WriteFailedWithCacheFilled ==
    /\ handled.op \in FailedWrites
    /\ handled.status \in {400, 404, 500}
    /\ ALL_CATEGORIES \in DOMAIN cache

(***************************************************************************)
(* Cache backend errors: a cache call that raises                          *)
(***************************************************************************)
\* the outcome of a request during which a cache call raised
CacheError(op, status) ==
    [op |-> op, status |-> status, pid |-> 0, slug |-> NoSlug, sub |-> NoSlug,
     ids |-> << >>, cache_error |-> TRUE]

\* get_cached_queryset lets the exception of cache.get, or on a miss of
\* cache.set, leave the function
get_cached_queryset_raises(c, cache_key, getOk, setOk) ==
    ~getOk \/ (cache_key \notin DOMAIN c /\ ~setOk)

\* the admin site marks a product as popular, or unmarks it, and saves it
ProductAdmin_set_popular(pk, flag) ==
    /\ pk \in DOMAIN products
    /\ products' = [products EXCEPT ![pk] = Product_save(pk, [products[pk] EXCEPT !.is_popular = flag])]
    /\ UNCHANGED <<others, specs, rendered, categories, subcategories, blogs, nextId, cache, handled>>

\* GET products/popular/: cache.get is outside the try, cache.set inside it
popular_products(getOk, setOk) ==
    LET fetched == Take(OrderDesc({ p \in DOMAIN products : products[p].is_popular }), 10) IN
    IF ~getOk
    THEN /\ handled' = CacheError("popular_products", 500)
         /\ UNCHANGED <<others, rendered, store, cache>>
    ELSE IF POPULAR_PRODUCTS \in DOMAIN cache
    THEN /\ handled' = Handled("popular_products", 200, 0, NoSlug, NoSlug, cache[POPULAR_PRODUCTS])
         /\ UNCHANGED <<others, rendered, store, cache>>
    ELSE IF ~setOk
    THEN /\ handled' = CacheError("popular_products", 500)
         /\ UNCHANGED <<others, rendered, store, cache>>
    ELSE /\ Cardinality(DOMAIN cache \cup {POPULAR_PRODUCTS}) <= MaxEntries
         /\ cache' = CacheSet(cache, POPULAR_PRODUCTS, fetched)
         /\ handled' = Handled("popular_products", 200, 0, NoSlug, NoSlug, fetched)
         /\ UNCHANGED <<others, rendered, store>>

\* GET products/all_categories/ when no page is stored and a cache call of
\* get_cached_queryset raises
ProductViewSet_all_categories_cache_error(getOk, setOk) ==
    /\ PageKey("all-categories", Blank, "") \notin DOMAIN cache
    /\ get_cached_queryset_raises(cache, ALL_CATEGORIES, getOk, setOk)
    /\ handled' = CacheError("all_categories", 500)
    /\ UNCHANGED <<others, rendered, store, cache>>

\* POST categories/ when cache.delete_many raises in invalidate_product_caches:
\* serializer.save() has returned, the exception leaves perform_create
CategoryViewSet_create_cache_error(data) ==
    /\ Created < MaxCreates
    /\ CategorySerializer_is_valid(0, data)
    /\ categories' = categories @@ (nextId.category :> Category_save(0, NewCategory(data)))
    /\ nextId' = [nextId EXCEPT !.category = @ + 1]
    /\ handled' = CacheError("category_create", 500)
    /\ UNCHANGED <<others, specs, rendered, subcategories, products, blogs, cache>>

\* POST subcategories/<subcategory_slug>/products/create/ when cache.delete_many
\* raises in invalidate_product_caches
ProductViewSet_create_cache_error(kw, data) ==
    /\ Created < MaxCreates
    /\ ProductSerializer_is_valid(0, data)
    /\ ParentNamed(kw)
    /\ ParentFound(subcategories, kw) # {}
    /\ LET subcategory == CHOOSE i \in ParentFound(subcategories, kw) : TRUE
           product == Product_save(0, [NewProduct(perform_create_defaults(data))
                                         EXCEPT !.subcategory = subcategory])
       IN products' = products @@ (nextId.product :> product)
    /\ nextId' = [nextId EXCEPT !.product = @ + 1]
    /\ handled' = CacheError("product_create", 500)
    /\ UNCHANGED <<others, specs, rendered, categories, subcategories, blogs, cache>>

NamedFs == { [name |-> <<"F", "s">>] }

NextCacheFault ==
    \/ \E data \in NamedFs : CategoryViewSet_create(data, TRUE)
    \/ \E kw \in ParentKwargs, data \in NamedFs : SubcategoryViewSet_create(kw, data, TRUE)
    \/ \E kw \in ParentKwargs, data \in ProductBodies : ProductViewSet_create(kw, data, TRUE)
    \/ \E pk \in DOMAIN products, flag \in BOOLEAN : ProductAdmin_set_popular(pk, flag)
    \/ \E getOk, setOk \in BOOLEAN : popular_products(getOk, setOk)
    \/ ProductViewSet_all_categories
    \/ \E getOk, setOk \in BOOLEAN : ProductViewSet_all_categories_cache_error(getOk, setOk)
    \/ \E data \in NamedFs : CategoryViewSet_create_cache_error(data)
    \/ \E kw \in ParentKwargs, data \in ProductBodies : ProductViewSet_create_cache_error(kw, data)
    \/ \E k \in DOMAIN cache : Expire(k)

SpecCacheFault == Init /\ [][NextCacheFault]_vars

\* C11: a request during which a cache get, set or delete raised is still
\* answered successfully (the data from the store, or the committed write).
CacheErrorNeverFailsRequest ==
    ("cache_error" \in DOMAIN handled) => Success(handled.status)

(***************************************************************************)
(* Specification tables and rows (admin site inlines), cascade on delete   *)
(***************************************************************************)
SpecsCreated == (nextId.spec_table - 1) + (nextId.spec_row - 1)

SpecificationTable_create(product) ==
    /\ SpecsCreated < MaxSpecs
    /\ product \in DOMAIN products
    /\ spec_tables' = spec_tables @@ (nextId.spec_table :> [product |-> product])
    /\ nextId' = [nextId EXCEPT !.spec_table = @ + 1]
    /\ UNCHANGED <<others, rendered, categories, subcategories, products, blogs, spec_rows,
                   cache, handled>>

SpecificationRow_create(table) ==
    /\ SpecsCreated < MaxSpecs
    /\ table \in DOMAIN spec_tables
    /\ spec_rows' = spec_rows @@ (nextId.spec_row :> [table |-> table])
    /\ nextId' = [nextId EXCEPT !.spec_row = @ + 1]
    /\ UNCHANGED <<others, rendered, categories, subcategories, products, blogs, spec_tables,
                   cache, handled>>

SpecificationTable_delete(pk) ==
    /\ pk \in DOMAIN spec_tables
    /\ spec_tables' = Restrict(spec_tables, {pk})
    /\ spec_rows' = Restrict(spec_rows, RowsOf({pk}))
    /\ UNCHANGED <<others, rendered, categories, subcategories, products, blogs, nextId,
                   cache, handled>>

SpecificationRow_delete(pk) ==
    /\ pk \in DOMAIN spec_rows
    /\ spec_rows' = Restrict(spec_rows, {pk})
    /\ UNCHANGED <<others, rendered, categories, subcategories, products, blogs, nextId,
                   spec_tables, cache, handled>>

NextCascade ==
    \/ \E name \in Names : Category_create(name, Blank)
    \/ \E c \in DOMAIN categories : Subcategory_create(c, <<"F", "s">>, Blank)
    \/ \E g \in DOMAIN subcategories, stock \in 0..MaxStock :
          Product_create(g, <<"F", "s">>, Blank, stock, IN_STOCK)
    \/ \E p \in DOMAIN products : SpecificationTable_create(p)
    \/ \E t \in DOMAIN spec_tables : SpecificationRow_create(t)
    \/ \E pk \in DOMAIN categories : Category_delete(pk)
    \/ \E pk \in DOMAIN subcategories : Subcategory_delete(pk)
    \/ \E pk \in DOMAIN products : Product_delete(pk)
    \/ \E pk \in DOMAIN spec_tables : SpecificationTable_delete(pk)
    \/ \E pk \in DOMAIN spec_rows : SpecificationRow_delete(pk)
    \/ \E g \in RequestSlugs : CategoryViewSet_destroy(g, TRUE)
    \/ \E g \in RequestSlugs : SubcategoryViewSet_destroy(NoSlug, g, TRUE)
    \/ \E g \in RequestSlugs : ProductViewSet_destroy(g, TRUE)

SpecCascade == Init /\ [][NextCascade]_vars

\* C12: every Subcategory references an existing Category, every Product an
\* existing Subcategory, every SpecificationTable an existing Product and every
\* SpecificationRow an existing SpecificationTable.
ReferencesExist ==
    /\ \A i \in DOMAIN subcategories : subcategories[i].category \in DOMAIN categories
    /\ \A i \in DOMAIN products : products[i].subcategory \in DOMAIN subcategories
    /\ \A i \in DOMAIN spec_tables : spec_tables[i].product \in DOMAIN products
    /\ \A i \in DOMAIN spec_rows : spec_rows[i].table \in DOMAIN spec_tables

\* C12 witness: a Category was deleted through the API after a specification
\* row had been stored below it, and no table holds a row any more.
CategoryDeletedWithRows ==
    /\ handled.op = "category_destroy"
    /\ nextId.spec_row > 1
    /\ categories = << >>
    /\ subcategories = << >> /\ products = << >>
    /\ spec_tables = << >> /\ spec_rows = << >>

(***************************************************************************)
(* Hero banners                                                            *)
(***************************************************************************)
STANDARD == "standard"
POSTER == "poster"
DISPLAY_MODE_CHOICES == {STANDARD, POSTER}

\* the names the models module binds by its imports
ModuleImports == {"models", "slugify", "cloudinary", "CloudinaryField"}

\* raise <name>(...): the exception that leaves the statement
Raise(name) == IF name \in ModuleImports THEN name ELSE "NameError"

NotRaised == "none"

\* HeroBanner.clean: the exception it ends with, if any; an image or a title
\* is modelled by whether it is present
HeroBanner_clean(self) ==
    IF self.display_mode = POSTER
    THEN IF ~self.poster_image THEN Raise("ValidationError") ELSE NotRaised
    ELSE IF self.display_mode = STANDARD
    THEN IF ~self.title THEN Raise("ValidationError")
         ELSE IF ~self.image_1 THEN Raise("ValidationError")
         ELSE NotRaised
    ELSE NotRaised

\* banner instances handed to save()
BannerObjects ==
    [display_mode : DISPLAY_MODE_CHOICES, poster_image : BOOLEAN, title : BOOLEAN,
     image_1 : BOOLEAN]

\* the outcome of a save(): the exception raised, and the instance saved
BannerSaved(self, raised) ==
    [op |-> "banner_save", status |-> 0, pid |-> 0, slug |-> NoSlug, sub |-> NoSlug,
     ids |-> << >>, obj |-> self, raised |-> raised]

\* HeroBanner.save of a new instance: full_clean(), then the insert
HeroBanner_create(self) ==
    /\ nextId.banner <= MaxBanners
    /\ handled' = BannerSaved(self, HeroBanner_clean(self))
    /\ IF HeroBanner_clean(self) # NotRaised
       THEN UNCHANGED <<banners, nextId>>
       ELSE /\ banners' = banners @@ (nextId.banner :> self)
            /\ nextId' = [nextId EXCEPT !.banner = @ + 1]
    /\ UNCHANGED <<running, saving, health, caller, specs, rendered, categories, subcategories,
                   products, blogs, cache>>

\* HeroBanner.save of a persisted instance whose fields were changed
HeroBanner_resave(pk, self) ==
    /\ pk \in DOMAIN banners
    /\ handled' = BannerSaved(self, HeroBanner_clean(self))
    /\ IF HeroBanner_clean(self) # NotRaised
       THEN UNCHANGED banners
       ELSE banners' = [banners EXCEPT ![pk] = self]
    /\ UNCHANGED <<running, saving, health, caller, rendered, store, cache>>

HeroBanner_delete(pk) ==
    /\ pk \in DOMAIN banners
    /\ banners' = Restrict(banners, {pk})
    /\ UNCHANGED <<running, saving, health, caller, rendered, store, cache, handled>>

NextBanner ==
    \/ \E self \in BannerObjects : HeroBanner_create(self)
    \/ \E pk \in DOMAIN banners, self \in BannerObjects : HeroBanner_resave(pk, self)
    \/ \E pk \in DOMAIN banners : HeroBanner_delete(pk)

SpecBanner == Init /\ [][NextBanner]_vars

\* what the display mode of a banner requires
ModeRequirement(b) ==
    IF b.display_mode = POSTER THEN b.poster_image ELSE b.title /\ b.image_1

\* C13: a save of a banner that misses what its display mode requires is
\* rejected with a validation error, and every persisted banner satisfies the
\* requirement of its display mode.
BannerValidatedBeforeSave ==
    /\ \A i \in DOMAIN banners : ModeRequirement(banners[i])
    /\ (handled.op = "banner_save" /\ ~ModeRequirement(handled.obj))
          => handled.raised = "ValidationError"

(***************************************************************************)
(* Saving a new record in any store state                                  *)
(***************************************************************************)
\* validate_slug: one or more of [-a-zA-Z0-9_]
SlugChars == WordChars \cup {"-", "F", "S"}

ValidSlug(slug) == slug # Blank /\ \A i \in 1..Len(slug) : slug[i] \in SlugChars

\* the slug save() gives a new record of each table, for a display name
NewSlugs(name) ==
    << <<categories, Category_save(0, [name |-> name, slug |-> Blank]).slug>>,
       <<subcategories, Subcategory_save(0, [name |-> name, slug |-> Blank, category |-> 0]).slug>>,
       <<products, Product_save(0, [name |-> name, slug |-> Blank, subcategory |-> 0,
                                    stock |-> 0, status |-> IN_STOCK,
                                    is_popular |-> FALSE]).slug>>,
       <<blogs, Blog_save(0, [title |-> name, slug |-> Blank]).slug>> >>

\* C14: in every store state and for every display name, the save of a new
\* Category, Subcategory, Product or Blog is accepted by the store and gives
\* the record a valid slug that no other record of the type holds.
SaveNeverFails ==
    \A name \in Names : \A t \in DOMAIN NewSlugs(name) :
        /\ UniqueSlug(NewSlugs(name)[t][1], 0, NewSlugs(name)[t][2])
        /\ ValidSlug(NewSlugs(name)[t][2])

(***************************************************************************)
(* save() of new records in concurrent requests: every query of the while  *)
(* loop and the final insert are separate statements on the database       *)
(***************************************************************************)
\* the table a save in progress writes to
TableOf(kind) == IF kind = "category" THEN categories ELSE products

\* save() is entered with a new instance, its slug not set: the lines before the loop
save_begin(p, kind, name, subcategory) ==
    /\ saving[p].pc = "idle"
    /\ Created < MaxCreates
    /\ IF kind = "product" THEN subcategory \in DOMAIN subcategories ELSE subcategory = 0
    /\ saving' = [saving EXCEPT ![p] =
          [pc |-> "while", kind |-> kind, name |-> name, subcategory |-> subcategory,
           base_slug |-> slugify(name), slug |-> slugify(name), counter |-> 1]]
    /\ UNCHANGED <<running, banners, health, caller, rendered, store, cache, handled>>

\* the loop giving up after its first suffix
save_exists_capped(p) ==
    /\ saving[p].pc = "while"
    /\ saving' = [saving EXCEPT ![p] =
          IF saving[p].slug \in SlugsExcluding(TableOf(saving[p].kind), 0)
             /\ saving[p].counter <= 1
          THEN [@ EXCEPT !.slug = saving[p].base_slug \o <<"-">> \o FormatInt(saving[p].counter),
                         !.counter = @ + 1]
          ELSE [@ EXCEPT !.pc = "insert"]]
    /\ UNCHANGED <<running, banners, health, caller, rendered, store, cache, handled>>

\* one evaluation of objects.filter(slug=slug).exists() and, if a row holds
\* the slug, the body of the loop
save_exists(p) ==
    /\ saving[p].pc = "while"
    /\ saving' = [saving EXCEPT ![p] =
          IF saving[p].slug \in SlugsExcluding(TableOf(saving[p].kind), 0)
          THEN [@ EXCEPT !.slug = saving[p].base_slug \o <<"-">> \o FormatInt(saving[p].counter),
                         !.counter = @ + 1]
          ELSE [@ EXCEPT !.pc = "insert"]]
    /\ UNCHANGED <<running, banners, health, caller, rendered, store, cache, handled>>

\* super().save(): the insert, refused by the unique slug column if another
\* row holds the slug by now; a referenced subcategory must still exist
save_insert(p) ==
    /\ saving[p].pc = "insert"
    /\ IF ~UniqueSlug(TableOf(saving[p].kind), 0, saving[p].slug)
          \/ (saving[p].kind = "product" /\ saving[p].subcategory \notin DOMAIN subcategories)
       THEN /\ saving' = [saving EXCEPT ![p].pc = "IntegrityError"]
            /\ UNCHANGED store
       ELSE /\ saving' = [saving EXCEPT ![p].pc = "saved"]
            /\ IF saving[p].kind = "category"
               THEN /\ categories' = categories @@
                         (nextId.category :> [name |-> saving[p].name, slug |-> saving[p].slug,
                                                type |-> FIRE_SAFETY])
                    /\ nextId' = [nextId EXCEPT !.category = @ + 1]
                    /\ UNCHANGED products
               ELSE /\ products' = products @@
                         (nextId.product :>
                            StatusOfStock([name |-> saving[p].name, slug |-> saving[p].slug,
                                           subcategory |-> saving[p].subcategory, stock |-> 0,
                                           status |-> IN_STOCK, is_popular |-> FALSE,
                                           price |-> None, price_visibility |-> PUBLIC]))
                    /\ nextId' = [nextId EXCEPT !.product = @ + 1]
                    /\ UNCHANGED categories
            /\ UNCHANGED <<subcategories, blogs, specs>>
    /\ UNCHANGED <<running, banners, health, caller, rendered, cache, handled>>

\* the request of the save ends; the process takes the next request
save_return(p) ==
    /\ saving[p].pc \in {"saved", "IntegrityError"}
    /\ saving' = [saving EXCEPT ![p] = [pc |-> "idle"]]
    /\ UNCHANGED <<running, banners, health, caller, rendered, store, cache, handled>>

\* display names that normalize to the same base token
NamesOfOneBase == { <<"F", "s">>, <<"F", "s", "!">> }

NextConcurrent ==
    \/ Category_create(<<"F", "s">>, Blank)
    \/ \E c \in DOMAIN categories : Subcategory_create(c, <<"F", "s">>, Blank)
    \/ \E p \in Procs, kind \in {"category", "product"}, name \in NamesOfOneBase,
          g \in DOMAIN subcategories \cup {0} : save_begin(p, kind, name, g)
    \/ \E p \in Procs : save_exists(p)
    \/ \E p \in Procs : save_insert(p)
    \/ \E p \in Procs : save_return(p)

SpecConcurrent == Init /\ [][NextConcurrent]_vars

\* C15: when requests save new entities of one type concurrently, every save
\* completes (no insert is refused) and no two rows of a type hold the same slug.
ConcurrentSavesComplete ==
    /\ \A p \in Procs : saving[p].pc # "IntegrityError"
    /\ \A i, j \in DOMAIN categories : i # j => categories[i].slug # categories[j].slug
    /\ \A i, j \in DOMAIN products : i # j => products[i].slug # products[j].slug

(***************************************************************************)
(* Lookups of categories and subcategories by the API                      *)
(***************************************************************************)
\* GET categories/<slug>/ (cache_page)
CategoryViewSet_retrieve(slug) ==
    LET page == PageKey("category-detail", slug, "") IN
    IF page \notin DOMAIN cache /\ BySlug(categories, slug) = {}
    THEN NotFound("category_retrieve", 400, "category")
    ELSE CachedPage("category_retrieve", page, slug, OrderAsc(BySlug(categories, slug)), cache)

\* GET subcategories/<slug>/, categories/<category_slug>/subcategories/<slug>/ (cache_page)
SubcategoryViewSet_retrieve(category_slug, slug) ==
    LET page == PageKey("subcategory-detail", category_slug \o <<"/">> \o slug, "")
        found == SubcategoryViewSet_get_object(category_slug, slug)
    IN IF page \notin DOMAIN cache /\ found = {}
       THEN NotFound("subcategory_retrieve", 400, "subcategory")
       ELSE CachedPage("subcategory_retrieve", page, slug, OrderAsc(found), cache)

\* GET subcategories/, categories/<category_slug>/subcategories/,
\* categories/<category_pk>/subcategories/ (cache_page, vary on Authorization):
\* get_queryset looks the category up by category_slug only
SubcategoryViewSet_list(kw, viewer) ==
    LET page == PageKey("subcategory-list", kw.slug \o <<"/">> \o kw.pk, viewer) IN
    IF page \notin DOMAIN cache /\ kw.slug # NoSlug /\ BySlug(categories, kw.slug) = {}
    THEN NotFound("subcategory_list", 404, "category")
    ELSE CachedPage("subcategory_list", page, kw.slug,
                    OrderAsc(IF kw.slug = NoSlug THEN DOMAIN subcategories
                             ELSE { i \in DOMAIN subcategories :
                                      subcategories[i].category \in BySlug(categories, kw.slug) }),
                    cache)

NextLookup ==
    \/ \E data \in NamedFs : CategoryViewSet_create(data, TRUE)
    \/ \E kw \in ParentKwargs, data \in NamedFs : SubcategoryViewSet_create(kw, data, TRUE)
    \/ \E kw \in ParentKwargs, data \in ProductBodies : ProductViewSet_create(kw, data, TRUE)
    \/ \E g \in RequestSlugs, data \in NamedFs : CategoryViewSet_update(g, data, TRUE)
    \/ \E g \in RequestSlugs : CategoryViewSet_destroy(g, TRUE)
    \/ \E c \in RequestSlugs \cup {NoSlug}, g \in RequestSlugs, data \in NamedFs :
          SubcategoryViewSet_update(c, g, data, TRUE)
    \/ \E c \in RequestSlugs \cup {NoSlug}, g \in RequestSlugs :
          SubcategoryViewSet_destroy(c, g, TRUE)
    \/ \E g \in RequestSlugs : CategoryViewSet_retrieve(g)
    \/ \E c \in RequestSlugs \cup {NoSlug}, g \in RequestSlugs : SubcategoryViewSet_retrieve(c, g)
    \/ \E kw \in ParentKwargs, viewer \in Viewers : SubcategoryViewSet_list(kw, viewer)
    \/ \E k \in DOMAIN cache : Expire(k)

SpecLookup == Init /\ [][NextLookup]_vars

\* C16: a request that names a category or subcategory that does not exist is
\* answered with a validation error (400), never with a 404.
MissingEntityIsValidationError ==
    ("missing" \in DOMAIN handled) => handled.status = 400

(***************************************************************************)
(* Writes through the admin site and the import (Model.save / delete, no   *)
(* cache call) next to the API's writes and cached reads                   *)
(***************************************************************************)
NextAdminSite ==
    \/ Category_create(<<"F", "s">>, Blank)
    \/ \E pk \in DOMAIN categories, name \in NamesOfOneBase : Category_resave(pk, name)
    \/ \E pk \in DOMAIN categories : Category_delete(pk)
    \/ \E c \in DOMAIN categories : Subcategory_create(c, <<"F", "s">>, Blank)
    \/ \E pk \in DOMAIN subcategories : Subcategory_delete(pk)
    \/ \E g \in DOMAIN subcategories, stock \in 0..MaxStock :
          Product_create(g, <<"F", "s">>, Blank, stock, IN_STOCK)
    \/ \E pk \in DOMAIN products, stock \in 0..MaxStock :
          Product_resave(pk, <<"F", "s">>, stock, IN_STOCK)
    \/ \E pk \in DOMAIN products : Product_delete(pk)
    \/ \E data \in NamedFs : CategoryViewSet_create(data, TRUE)
    \/ \E kw \in ParentKwargs, data \in ProductBodies : ProductViewSet_create(kw, data, TRUE)
    \/ \E g \in RequestSlugs, viewer \in Viewers : ProductsBySubcategoryView_get(g, viewer)
    \/ ProductViewSet_all_categories
    \/ ProductViewSet_all_subcategories
    \/ \E k \in DOMAIN cache : Expire(k)

SpecAdminSite == Init /\ [][NextAdminSite]_vars

\* the products a step inserts, changes or deletes
ProductsWritten ==
    { p \in DOMAIN products \cup DOMAIN products' :
        \/ p \notin DOMAIN products
        \/ p \notin DOMAIN products'
        \/ products[p] # products'[p] }

\* the look-aside keys whose data a step changes
KeysAffected ==
    (IF categories' # categories THEN {ALL_CATEGORIES} ELSE {})
        \cup (IF subcategories' # subcategories THEN {ALL_SUBCATEGORIES} ELSE {})
        \cup { ProductsBySubcategoryKey(
                 SubcategorySlug(IF p \in DOMAIN products THEN products[p].subcategory
                                 ELSE products'[p].subcategory)) : p \in ProductsWritten }

\* C17: once a write to a Category, Subcategory or Product has returned, by
\* whichever entry point, no look-aside key it affects is populated.
WriteLeavesNoAffectedKey == [][KeysAffected \cap DOMAIN cache' = {}]_vars

(***************************************************************************)
(* Product detail reads                                                    *)
(***************************************************************************)
\* the body of a product detail response: the product's id and the mapper's
\* status and stock
DetailBody(pk) ==
    << [id |-> pk, status |-> get_status(products[pk]), stock |-> products[pk].stock] >>

\* a detail view under cache_page: 404 if the view runs and finds no product
DetailPage(op, page, slug) ==
    IF page \in DOMAIN cache THEN CachedPage(op, page, slug, << >>, cache)
    ELSE IF BySlug(products, slug) = {} THEN Fail(op, 404)
    ELSE CachedPage(op, page, slug, DetailBody(CHOOSE i \in BySlug(products, slug) : TRUE), cache)

\* GET products/<slug>/ of the router (ProductViewSet.retrieve, cache_page)
ProductViewSet_retrieve(slug) ==
    DetailPage("product_retrieve", PageKey("product-detail", slug, ""), slug)

\* GET products/<product_slug>/ (ProductDetailView, cache_page)
ProductDetailView_get(product_slug) ==
    DetailPage("product_detail", PageKey("product-detail-contract", product_slug, ""),
               product_slug)

\* bodies of a stock update
StockBodies ==
    { [name |-> <<"F", "s">>, subcategory |-> g, stock |-> k] :
        g \in DOMAIN subcategories, k \in 0..MaxStock }

NextDetail ==
    \/ \E data \in NamedFs : CategoryViewSet_create(data, TRUE)
    \/ \E kw \in ParentKwargs, data \in NamedFs : SubcategoryViewSet_create(kw, data, TRUE)
    \/ \E kw \in ParentKwargs, data \in StockBodies : ProductViewSet_create(kw, data, TRUE)
    \/ \E g \in RequestSlugs, data \in StockBodies : ProductViewSet_update(g, data, TRUE)
    \/ \E g \in RequestSlugs : ProductViewSet_retrieve(g)
    \/ \E g \in RequestSlugs : ProductDetailView_get(g)
    \/ \E k \in DOMAIN cache : Expire(k)

SpecDetail == Init /\ [][NextDetail]_vars

DetailReads == {"product_retrieve", "product_detail"}

\* C18: a product detail read reports the status derived from the stock the
\* latest preceding write has set.
DetailStatusFollowsLatestStock ==
    (handled.op \in DetailReads /\ handled.status = 200) =>
        \A i \in DOMAIN handled.ids :
            handled.ids[i].id \in DOMAIN products =>
                handled.ids[i].status =
                    IF products[handled.ids[i].id].stock > 0 THEN IN_STOCK ELSE OUT_OF_STOCK

(***************************************************************************)
(* The cache backend (LocMemCache) at its capacity, and the health check   *)
(***************************************************************************)
\* OPTIONS['MAX_ENTRIES'], scaled to the model: one more entry than the
\* request handlers are let to store
MAX_ENTRIES == MaxEntries + 1

\* OPTIONS['CULL_FREQUENCY']
CULL_FREQUENCY == 3

\* the sets of entries a cache.set may drop first: none below MAX_ENTRIES,
\* otherwise len // CULL_FREQUENCY of them (the least recently used ones; the
\* order of use is not part of the state, so any such set)
Culls(c) ==
    IF Cardinality(DOMAIN c) >= MAX_ENTRIES
    THEN { v \in SUBSET DOMAIN c : Cardinality(v) = Cardinality(DOMAIN c) \div CULL_FREQUENCY }
    ELSE { {} }

\* cache.set of the backend: cull, then store
LocMemSet(c, k, v, victims) == CacheSet(DeleteMany(c, victims), k, v)

\* test_key and test_value of the health check
HEALTH_KEY == Key("cache_health_check", Blank)
HEALTH_VALUE == <<"working">>

RECENT_PRODUCTS == Key("products:recent", Blank)

\* the dict check_cache_health returns
HealthError == [status |-> "error", working |-> FALSE]
Health(is_working) ==
    [status |-> IF is_working THEN "healthy" ELSE "unhealthy", working |-> is_working]

\* check_cache_health without the delete
check_cache_health_keeping_key(setOk, getOk, deleteOk, victims) ==
    /\ victims \in Culls(cache)
    /\ IF ~setOk
       THEN health' = HealthError /\ UNCHANGED cache
       ELSE LET written == LocMemSet(cache, HEALTH_KEY, HEALTH_VALUE, victims) IN
            IF ~getOk \/ ~deleteOk
            THEN health' = HealthError /\ cache' = written
            ELSE /\ health' = Health(written[HEALTH_KEY] = HEALTH_VALUE)
                 /\ cache' = written
    /\ UNCHANGED <<running, banners, saving, caller, rendered, store, handled>>

\* check_cache_health: set, get, delete on the reserved key; an exception of
\* a cache call is caught
check_cache_health(setOk, getOk, deleteOk, victims) ==
    /\ victims \in Culls(cache)
    /\ IF ~setOk
       THEN health' = HealthError /\ UNCHANGED cache
       ELSE LET written == LocMemSet(cache, HEALTH_KEY, HEALTH_VALUE, victims) IN
            IF ~getOk \/ ~deleteOk
            THEN health' = HealthError /\ cache' = written
            ELSE /\ health' = Health(written[HEALTH_KEY] = HEALTH_VALUE)
                 /\ cache' = DeleteMany(written, {HEALTH_KEY})
    /\ UNCHANGED <<running, banners, saving, caller, rendered, store, handled>>

\* manage.py clear_cache --check: the same round trip, reported on stdout;
\* a failed read test returns before the delete
Command_check_cache(setOk, getOk, deleteOk, victims) ==
    /\ victims \in Culls(cache)
    /\ IF ~setOk
       THEN health' = HealthError /\ UNCHANGED cache
       ELSE LET written == LocMemSet(cache, HEALTH_KEY, HEALTH_VALUE, victims) IN
            IF ~getOk THEN health' = HealthError /\ cache' = written
            ELSE IF written[HEALTH_KEY] # HEALTH_VALUE
            THEN health' = Health(FALSE) /\ cache' = written
            ELSE IF ~deleteOk THEN health' = HealthError /\ cache' = written
            ELSE /\ health' = Health(TRUE)
                 /\ cache' = DeleteMany(written, {HEALTH_KEY})
    /\ UNCHANGED <<running, banners, saving, caller, rendered, store, handled>>

\* manage.py clear_cache --warm: three cache.set calls
Command_warm_caches(v1, v2, v3) ==
    /\ v1 \in Culls(cache)
    /\ LET first == LocMemSet(cache, ALL_CATEGORIES, OrderAsc(DOMAIN categories), v1) IN
       /\ v2 \in Culls(first)
       /\ LET second == LocMemSet(first, ALL_SUBCATEGORIES, OrderAsc(DOMAIN subcategories), v2) IN
          /\ v3 \in Culls(second)
          /\ cache' = LocMemSet(second, RECENT_PRODUCTS,
                                Take(OrderDesc(DOMAIN products), 100), v3)
    /\ UNCHANGED <<others, rendered, store, handled>>

NextHealth ==
    \/ \E data \in NamedFs : CategoryViewSet_create(data, TRUE)
    \/ \E kw \in ParentKwargs, data \in NamedFs : SubcategoryViewSet_create(kw, data, TRUE)
    \/ ProductViewSet_all_categories
    \/ \E v1, v2, v3 \in SUBSET DOMAIN cache : Command_warm_caches(v1, v2, v3)
    \/ \E setOk, getOk, deleteOk \in BOOLEAN, victims \in SUBSET DOMAIN cache :
          check_cache_health(setOk, getOk, deleteOk, victims)
    \/ \E setOk, getOk, deleteOk \in BOOLEAN, victims \in SUBSET DOMAIN cache :
          Command_check_cache(setOk, getOk, deleteOk, victims)
    \/ \E k \in DOMAIN cache : Expire(k)

SpecHealth == Init /\ [][NextHealth]_vars

\* the entries of a cache other than the reserved key
OtherEntries(c) == DeleteMany(c, {HEALTH_KEY})

\* a step of the health check in which no cache call raises
HealthCheckRuns ==
    \E victims \in SUBSET DOMAIN cache : check_cache_health(TRUE, TRUE, TRUE, victims)

\* a step of the health check in which a cache call raises
HealthCheckRaises ==
    \E setOk, getOk, deleteOk \in BOOLEAN, victims \in SUBSET DOMAIN cache :
        /\ ~(setOk /\ getOk /\ deleteOk)
        /\ check_cache_health(setOk, getOk, deleteOk, victims)

\* C19 as stated: the health check on a working cache reports healthy, leaves
\* the reserved key absent and every other entry unchanged; on a backend
\* exception it returns status error with working false.
HealthCheckLeavesCacheUnchanged ==
    [][/\ HealthCheckRuns =>
            /\ health' = [status |-> "healthy", working |-> TRUE]
            /\ HEALTH_KEY \notin DOMAIN cache'
            /\ OtherEntries(cache') = OtherEntries(cache)
       /\ HealthCheckRaises => health' = [status |-> "error", working |-> FALSE]]_vars

\* C19 amended: the other entries are unchanged when the cache holds fewer
\* than MAX_ENTRIES entries; at MAX_ENTRIES the write of the reserved key
\* culls len // CULL_FREQUENCY of them.
HealthCheckRoundTrip ==
    [][/\ HealthCheckRuns =>
            /\ health' = [status |-> "healthy", working |-> TRUE]
            /\ HEALTH_KEY \notin DOMAIN cache'
            /\ Cardinality(DOMAIN cache) < MAX_ENTRIES
                  => OtherEntries(cache') = OtherEntries(cache)
            /\ Cardinality(DOMAIN OtherEntries(cache')) >=
                  Cardinality(DOMAIN OtherEntries(cache))
                     - (Cardinality(DOMAIN cache) \div CULL_FREQUENCY)
       /\ HealthCheckRaises => health' = [status |-> "error", working |-> FALSE]]_vars

\* C19 witness: the health check has reported a working cache while the cache
\* holds other entries, below its capacity.
HealthyWithOtherEntries ==
    /\ health = [status |-> "healthy", working |-> TRUE]
    /\ HEALTH_KEY \notin DOMAIN cache
    /\ ALL_CATEGORIES \in DOMAIN cache
    /\ Cardinality(DOMAIN cache) < MAX_ENTRIES

(***************************************************************************)
(* Callers and permissions                                                 *)
(***************************************************************************)
\* who sends a request: nobody logged in, a logged-in user, a staff user
Callers == {"anonymous", "user", "staff"}

\* rest_framework.permissions as the views import them
AllowAny(user) == TRUE
IsAdminUser(user) == user = "staff"
IsAuthenticatedOrReadOnly(method, user) ==
    method \in {"GET", "HEAD", "OPTIONS"} \/ user # "anonymous"

\* the class attribute permission_classes of CategoryViewSet, which
\* get_permissions overrides
CategoryViewSet_permission_classes(method, action, user) ==
    IsAuthenticatedOrReadOnly(method, user)

\* CategoryViewSet.get_permissions
CategoryViewSet_get_permissions(method, action, user) ==
    IF action \in {"list", "retrieve"} THEN AllowAny(user) ELSE IsAdminUser(user)

\* SubcategoryViewSet.get_permissions
SubcategoryViewSet_get_permissions(method, action, user) ==
    IF action \in {"list", "retrieve"} THEN AllowAny(user) ELSE IsAdminUser(user)

\* ProductViewSet.get_permissions; subcategory_param: the query string has
\* a subcategory parameter
ProductViewSet_get_permissions(method, action, subcategory_param, user) ==
    IF method \in {"POST", "PUT", "PATCH", "DELETE"} THEN IsAdminUser(user)
    ELSE IF action = "list" /\ subcategory_param THEN IsAdminUser(user)
    ELSE AllowAny(user)

\* permission_classes of ProductAdminDetailView
ProductAdminDetailView_permission_classes(user) == IsAdminUser(user)

\* the response to a request whose permission check fails: 401 without
\* credentials (JWTAuthentication comes first and has a WWW-Authenticate
\* header), 403 with them; the handler does not run
permission_denied(op) ==
    /\ handled' = [op |-> op, status |-> IF caller = "anonymous" THEN 401 ELSE 403,
                   pid |-> 0, slug |-> NoSlug, sub |-> NoSlug, ids |-> << >>,
                   denied |-> caller]
    /\ UNCHANGED <<others, rendered, store, cache>>

\* the credentials the following requests carry: login_view, logout_view
Authenticate(user) ==
    /\ caller' = user
    /\ UNCHANGED <<running, banners, saving, health, rendered, store, cache, handled>>

\* POST categories/
POST_categories(data) ==
    IF CategoryViewSet_get_permissions("POST", "create", caller)
    THEN CategoryViewSet_create(data, TRUE)
    ELSE permission_denied("category_write")

\* PUT and PATCH categories/<slug>/
PUT_category(method, slug, data) ==
    IF CategoryViewSet_get_permissions(method,
           IF method = "PUT" THEN "update" ELSE "partial_update", caller)
    THEN CategoryViewSet_update(slug, data, TRUE)
    ELSE permission_denied("category_write")

\* DELETE categories/<slug>/
DELETE_category(slug) ==
    IF CategoryViewSet_get_permissions("DELETE", "destroy", caller)
    THEN CategoryViewSet_destroy(slug, TRUE)
    ELSE permission_denied("category_write")

\* POST subcategories/ and POST categories/<category>/subcategories/
POST_subcategories(kw, data) ==
    IF SubcategoryViewSet_get_permissions("POST", "create", caller)
    THEN SubcategoryViewSet_create(kw, data, TRUE)
    ELSE permission_denied("subcategory_write")

\* PUT and PATCH subcategories/<slug>/ and
\* categories/<category_slug>/subcategories/<slug>/
PUT_subcategory(method, category_slug, slug, data) ==
    IF SubcategoryViewSet_get_permissions(method,
           IF method = "PUT" THEN "update" ELSE "partial_update", caller)
    THEN SubcategoryViewSet_update(category_slug, slug, data, TRUE)
    ELSE permission_denied("subcategory_write")

\* DELETE subcategories/<slug>/ and
\* categories/<category_slug>/subcategories/<slug>/
DELETE_subcategory(category_slug, slug) ==
    IF SubcategoryViewSet_get_permissions("DELETE", "destroy", caller)
    THEN SubcategoryViewSet_destroy(category_slug, slug, TRUE)
    ELSE permission_denied("subcategory_write")

\* POST products/, subcategories/<subcategory>/products/ and
\* subcategories/<subcategory_slug>/products/create/
POST_products(kw, data) ==
    IF ProductViewSet_get_permissions("POST", "create", FALSE, caller)
    THEN ProductViewSet_create(kw, data, TRUE)
    ELSE permission_denied("product_write")

\* PUT and PATCH products/<slug>/
PUT_product(method, slug, data) ==
    IF ProductViewSet_get_permissions(method,
           IF method = "PUT" THEN "update" ELSE "partial_update", FALSE, caller)
    THEN ProductViewSet_update(slug, data, TRUE)
    ELSE permission_denied("product_write")

\* DELETE products/<slug>/
DELETE_product(slug) ==
    IF ProductViewSet_get_permissions("DELETE", "destroy", FALSE, caller)
    THEN ProductViewSet_destroy(slug, TRUE)
    ELSE permission_denied("product_write")

\* PUT and PATCH products/<int:pk>/ on ProductAdminDetailView
PUT_product_admin(pk, data) ==
    IF ProductAdminDetailView_permission_classes(caller)
    THEN ProductAdminDetailView_update(pk, data, TRUE)
    ELSE permission_denied("product_write")

\* DELETE products/<int:pk>/ on ProductAdminDetailView
DELETE_product_admin(pk) ==
    IF ProductAdminDetailView_permission_classes(caller)
    THEN ProductAdminDetailView_destroy(pk, TRUE)
    ELSE permission_denied("product_write")

\* GET products/all_categories/
GET_all_categories ==
    /\ ProductViewSet_get_permissions("GET", "all_categories", FALSE, caller)
    /\ ProductViewSet_all_categories

\* request bodies of a product write
ProductsNamedFs ==
    { [name |-> <<"F", "s">>, subcategory |-> g] : g \in DOMAIN subcategories \cup {0} }

NextCallers ==
    \/ \E user \in Callers : Authenticate(user)
    \/ \E data \in NamedFs : POST_categories(data)
    \/ \E method \in {"PUT", "PATCH"}, g \in RequestSlugs, data \in NamedFs :
          PUT_category(method, g, data)
    \/ \E g \in RequestSlugs : DELETE_category(g)
    \/ \E kw \in ParentKwargs, data \in NamedFs : POST_subcategories(kw, data)
    \/ \E method \in {"PUT", "PATCH"}, c \in RequestSlugs \cup {NoSlug}, g \in RequestSlugs,
          data \in NamedFs : PUT_subcategory(method, c, g, data)
    \/ \E c \in RequestSlugs \cup {NoSlug}, g \in RequestSlugs : DELETE_subcategory(c, g)
    \/ \E kw \in ParentKwargs, data \in ProductsNamedFs : POST_products(kw, data)
    \/ \E method \in {"PUT", "PATCH"}, g \in RequestSlugs, data \in ProductsNamedFs :
          PUT_product(method, g, data)
    \/ \E g \in RequestSlugs : DELETE_product(g)
    \/ \E pk \in 1..nextId.product, data \in ProductsNamedFs : PUT_product_admin(pk, data)
    \/ \E pk \in 1..nextId.product : DELETE_product_admin(pk)
    \/ GET_all_categories
    \/ \E k \in DOMAIN cache : Expire(k)

SpecCallers == Init /\ [][NextCallers]_vars

\* the requests that create, update or delete a category, a subcategory or
\* a product
WriteOps ==
    { "category_write", "category_create", "category_update", "category_destroy",
      "subcategory_write", "subcategory_create", "subcategory_update", "subcategory_destroy",
      "product_write", "product_create", "product_update", "product_destroy" }

\* C20: a request of a caller who is not staff never changes the store; a
\* create, update or delete by such a caller is answered with 401 or 403 and
\* leaves the store and the cache as they were.
NonStaffNeverWrites ==
    [][caller # "staff" =>
          /\ store' = store
          /\ (handled' # handled /\ handled'.op \in WriteOps) =>
                /\ handled'.status \in {401, 403}
                /\ cache' = cache]_vars

\* C20 witness: a write of a caller who is not staff has been rejected while
\* the store and the cache hold entries.
NonStaffWriteRejected ==
    /\ caller # "staff"
    /\ "denied" \in DOMAIN handled
    /\ handled.denied = caller
    /\ handled.op \in WriteOps
    /\ handled.status \in {401, 403}
    /\ DOMAIN categories # {}
    /\ DOMAIN cache # {}

(***************************************************************************)
(* Category names                                                          *)
(***************************************************************************)
\* Category.objects.get(name=category_name) of the product import: the rows
\* the query matches (get raises MultipleObjectsReturned on more than one)
CategoriesNamed(category_name) ==
    { i \in DOMAIN categories : categories[i].name = category_name }

\* C21: no two persisted categories have the same name, so the lookup of a
\* category by name finds at most one record.
CategoryNamesUnique ==
    \A category_name \in Names : Cardinality(CategoriesNamed(category_name)) <= 1

(***************************************************************************)
(* Category types                                                          *)
(***************************************************************************)
\* sub in s
Contains(sub, s) ==
    \E i \in 1..(Len(s) - Len(sub) + 1) : SubSeq(s, i, i + Len(sub) - 1) = sub

\* migration 0004, set_category_types: the type every category gets from its
\* name; the historical model saves the row as it is
set_category_types_row(cat) ==
    IF Contains(<<"f", "i", "r", "e">>, Lower(cat.name))
    THEN [cat EXCEPT !.type = "fire"]
    ELSE [cat EXCEPT !.type = "ict"]

set_category_types ==
    /\ categories' = [pk \in DOMAIN categories |-> set_category_types_row(categories[pk])]
    /\ UNCHANGED <<others, specs, rendered, subcategories, products, blogs, nextId, cache,
                   handled>>

\* bodies of category writes that carry a type: the choices, and a value
\* that is none of them
TypedBodies ==
    { [name |-> n, type |-> t] :
        n \in { <<"F", "i", "r", "e">>, <<"F", "s">> }, t \in CATEGORY_TYPES \cup {"fire"} }

NextTypes ==
    \/ \E data \in TypedBodies : CategoryViewSet_create(data, TRUE)
    \/ \E g \in RequestSlugs \cup {<<"f", "i", "r", "e">>}, data \in TypedBodies :
          CategoryViewSet_update(g, data, TRUE)
    \/ \E g \in RequestSlugs \cup {<<"f", "i", "r", "e">>} : CategoryViewSet_destroy(g, TRUE)
    \/ \E name \in { <<"F", "i", "r", "e">>, <<"F", "s">> } : Category_create(name, Blank)
    \/ set_category_types

SpecTypes == Init /\ [][NextTypes]_vars

\* C22: every persisted category has a type in {fire_safety, ict, solar}.
CategoryTypeIsChoice ==
    \A pk \in DOMAIN categories : categories[pk].type \in CATEGORY_TYPES

(***************************************************************************)
(* Look-aside reads next to writes, statement by statement                 *)
(***************************************************************************)
\* the queryset_func of all_categories on the store as it is now
fetch_categories == OrderAsc(DOMAIN categories)

\* get_cached_queryset, cache.get: a hit returns, a miss goes on to the query
get_cached_queryset_get(p, cache_key) ==
    /\ running[p].pc = "idle"
    /\ running' = [running EXCEPT ![p] =
          IF cache_key \in DOMAIN cache
          THEN [pc |-> "idle"]
          ELSE [pc |-> "queryset_func", cache_key |-> cache_key]]
    /\ UNCHANGED <<banners, saving, health, caller, rendered, store, cache, handled>>

\* get_cached_queryset, data = queryset_func()
get_cached_queryset_query(p) ==
    /\ running[p].pc = "queryset_func"
    /\ running' = [running EXCEPT ![p] =
          [pc |-> "set", cache_key |-> running[p].cache_key, data |-> fetch_categories]]
    /\ UNCHANGED <<banners, saving, health, caller, rendered, store, cache, handled>>

\* get_cached_queryset, cache.set(cache_key, data, timeout)
get_cached_queryset_set(p) ==
    /\ running[p].pc = "set"
    /\ cache' = CacheSet(cache, running[p].cache_key, running[p].data)
    /\ running' = [running EXCEPT ![p] = [pc |-> "idle"]]
    /\ UNCHANGED <<banners, saving, health, caller, rendered, store, handled>>

\* CategoryViewSet.perform_create, obj = serializer.save()
perform_create_save(p, data) ==
    /\ running[p].pc = "idle"
    /\ Created < MaxCreates
    /\ CategorySerializer_is_valid(0, data)
    /\ categories' = categories @@ (nextId.category :> Category_save(0, NewCategory(data)))
    /\ nextId' = [nextId EXCEPT !.category = @ + 1]
    /\ running' = [running EXCEPT ![p] = [pc |-> "invalidate_product_caches"]]
    /\ UNCHANGED <<banners, saving, health, caller, specs, rendered, subcategories, products,
                   blogs, cache, handled>>

\* CategoryViewSet.perform_create, invalidate_product_caches()
perform_create_invalidate(p) ==
    /\ running[p].pc = "invalidate_product_caches"
    /\ cache' = invalidate_product_caches(cache, NoRow, NoSlug, NoRow)
    /\ running' = [running EXCEPT ![p] = [pc |-> "idle"]]
    /\ UNCHANGED <<banners, saving, health, caller, rendered, store, handled>>

NextRace ==
    \/ \E p \in Procs : get_cached_queryset_get(p, ALL_CATEGORIES)
    \/ \E p \in Procs : get_cached_queryset_query(p)
    \/ \E p \in Procs : get_cached_queryset_set(p)
    \/ \E p \in Procs, data \in NamedFs : perform_create_save(p, data)
    \/ \E p \in Procs : perform_create_invalidate(p)
    \/ \E k \in DOMAIN cache : Expire(k)

SpecRace == Init /\ [][NextRace]_vars

\* no request is between two of its statements
Quiescent == \A p \in Procs : running[p].pc = "idle"

\* C23: once a look-aside read and a write that ran next to each other have
\* both finished, the cache entry of the key is absent or equal to the result
\* computed from the store as the write left it.
LookAsideFreshAfterRace ==
    Quiescent =>
        \/ ALL_CATEGORIES \notin DOMAIN cache
        \/ cache[ALL_CATEGORIES] = fetch_categories

(***************************************************************************)
(* Category and subcategory writes and the cache entries derived from them *)
(***************************************************************************)
\* the categories a step inserts, changes or removes
CategoriesWritten ==
    { c \in DOMAIN categories \cup DOMAIN categories' :
        \/ c \notin DOMAIN categories
        \/ c \notin DOMAIN categories'
        \/ categories[c] # categories'[c] }

\* the subcategories a step inserts, changes or removes, and those of the
\* categories it writes
SubcategoriesWritten ==
    { s \in DOMAIN subcategories \cup DOMAIN subcategories' :
        \/ s \notin DOMAIN subcategories
        \/ s \notin DOMAIN subcategories'
        \/ subcategories[s] # subcategories'[s]
        \/ subcategories[s].category \in CategoriesWritten }

\* the look-aside keys derived from the categories and subcategories a step
\* writes
DerivedKeys ==
    {ALL_CATEGORIES, ALL_SUBCATEGORIES}
        \cup { ProductsBySubcategoryKey(subcategories[s].slug) :
                 s \in SubcategoriesWritten \cap DOMAIN subcategories }
        \cup { ProductsBySubcategoryKey(subcategories'[s].slug) :
                 s \in SubcategoriesWritten \cap DOMAIN subcategories' }

CategoryWrites ==
    { "category_create", "category_update", "category_destroy",
      "subcategory_create", "subcategory_update", "subcategory_destroy" }

\* C24: after a category or subcategory create, update or delete through the
\* request handlers, no look-aside entry derived from the affected category
\* or subcategory is cached, the products-by-subcategory list of every
\* affected subcategory included.
CategoryWriteOverInvalidates ==
    [][(handled' # handled /\ handled'.op \in CategoryWrites)
          => DerivedKeys \cap DOMAIN cache' = {}]_vars

(***************************************************************************)
(* Prices in responses that are cached                                     *)
(***************************************************************************)
\* a product added on the admin site with its price fields filled in
ProductAdmin_add(subcategory, name, price, price_visibility, is_popular) ==
    /\ Created < MaxCreates
    /\ subcategory \in DOMAIN subcategories
    /\ LET row == Product_save(0, [name |-> name, slug |-> Blank, subcategory |-> subcategory,
                                   stock |-> 0, status |-> IN_STOCK, is_popular |-> is_popular,
                                   price |-> price, price_visibility |-> price_visibility])
       IN /\ UniqueSlug(products, 0, row.slug)
          /\ products' = products @@ (nextId.product :> row)
    /\ nextId' = [nextId EXCEPT !.product = @ + 1]
    /\ UNCHANGED <<others, specs, rendered, categories, subcategories, blogs, cache, handled>>

\* ProductSerializer(products, many=True, context={'request': request}).data:
\* the id, the price fields and the visibility of every product of the list
SerializerData(ids, request) ==
    [i \in 1..Len(ids) |->
        [id |-> ids[i],
         price |-> get_price(products[ids[i]], request),
         price_requires_login |-> get_price_requires_login(products[ids[i]], request),
         price_visibility |-> products[ids[i]].price_visibility]]

\* a response with its body and the request it answers
Responded(op, request, data) ==
    [op |-> op, status |-> 200, pid |-> 0, slug |-> NoSlug, sub |-> NoSlug, ids |-> << >>,
     request |-> request, data |-> data]

\* GET products/popular/ with the serialized body: the cached body answers
\* whoever asks, otherwise the body serialized for this request is stored
popular_products_data(request) ==
    IF POPULAR_PRODUCTS \in DOMAIN cache
    THEN /\ handled' = Responded("popular_products", request, cache[POPULAR_PRODUCTS])
         /\ UNCHANGED <<others, rendered, store, cache>>
    ELSE LET products_ == Take(OrderDesc({ p \in DOMAIN products : products[p].is_popular }), 10)
             data == SerializerData(products_, request)
         IN /\ cache' = CacheSet(cache, POPULAR_PRODUCTS, data)
            /\ handled' = Responded("popular_products", request, data)
            /\ UNCHANGED <<others, rendered, store>>

\* GET products/<slug>/related/ of ProductViewSet with the serialized body:
\* fetch_related returns serializer.data, which get_cached_queryset stores
ProductViewSet_related_data(slug, request) ==
    LET found == BySlug(products, slug)
        cache_key == RelatedProductsKey(slug)
    IN IF found = {} THEN Fail("product_related", 404)
       ELSE LET data == SerializerData(fetch_related(CHOOSE i \in found : TRUE), request) IN
            /\ handled' = Responded("product_related", request,
                                    get_cached_queryset_data(cache, cache_key, data))
            /\ cache' = get_cached_queryset_cache(cache, cache_key, data)
            /\ UNCHANGED <<others, rendered, store>>

\* the requests of an anonymous and of an authenticated viewer
ViewerRequests ==
    { [present |-> TRUE, has_user |-> TRUE, is_authenticated |-> FALSE],
      [present |-> TRUE, has_user |-> TRUE, is_authenticated |-> TRUE] }

NextPrice ==
    \/ Category_create(<<"F", "s">>, Blank)
    \/ \E c \in DOMAIN categories : Subcategory_create(c, <<"F", "s">>, Blank)
    \/ \E s \in DOMAIN subcategories, price \in {None, Some(1999)},
          price_visibility \in PRICE_VISIBILITY_CHOICES, is_popular \in BOOLEAN :
          ProductAdmin_add(s, <<"F", "s">>, price, price_visibility, is_popular)
    \/ \E request \in ViewerRequests : popular_products_data(request)
    \/ \E g \in RequestSlugs, request \in ViewerRequests : ProductViewSet_related_data(g, request)
    \/ \E k \in DOMAIN cache : Expire(k)

SpecPrice == Init /\ [][NextPrice]_vars

\* C25: no response to an unauthenticated viewer carries a price for a product
\* whose price_visibility is login_required, whatever was requested and cached
\* before.
AnonymousNeverSeesGatedPrice ==
    ("request" \in DOMAIN handled /\ ~user_is_auth(handled.request)) =>
        \A i \in DOMAIN handled.data :
            handled.data[i].price_visibility = LOGIN_REQUIRED => handled.data[i].price = None

(***************************************************************************)
(* Moving a product to another subcategory                                 *)
(***************************************************************************)
\* a catalog of one category with two subcategories and two products in the
\* first of them
InitCatalog ==
    /\ categories = (1 :> [name |-> <<"F", "s">>, slug |-> <<"f", "s">>, type |-> FIRE_SAFETY])
    /\ subcategories =
          (1 :> [name |-> <<"F", "s">>, slug |-> <<"f", "s">>, category |-> 1])
          @@ (2 :> [name |-> <<"F", "s">>, slug |-> <<"f", "s", "-", "1">>, category |-> 1])
    /\ products =
          (1 :> [name |-> <<"F", "s">>, slug |-> <<"f", "s">>, subcategory |-> 1,
                 stock |-> 0, status |-> OUT_OF_STOCK, is_popular |-> FALSE,
                 price |-> None, price_visibility |-> PUBLIC])
          @@ (2 :> [name |-> <<"F", "s">>, slug |-> <<"f", "s", "-", "1">>, subcategory |-> 1,
                    stock |-> 0, status |-> OUT_OF_STOCK, is_popular |-> FALSE,
                    price |-> None, price_visibility |-> PUBLIC])
    /\ blogs = << >>
    /\ nextId = [category |-> 2, subcategory |-> 3, product |-> 3, blog |-> 1,
                 spec_table |-> 1, spec_row |-> 1, banner |-> 1]
    /\ cache = << >>
    /\ handled = NoRequest
    /\ spec_tables = << >>
    /\ spec_rows = << >>
    /\ banners = << >>
    /\ saving = Idle
    /\ health = NotChecked
    /\ caller = "staff"
    /\ running = Idle
    /\ rendered = NotRendered

NextMove ==
    \/ \E g \in RequestSlugs, data \in StockBodies : ProductViewSet_update(g, data, TRUE)
    \/ \E pk \in 1..nextId.product, data \in StockBodies :
          ProductAdminDetailView_update(pk, data, TRUE)
    \/ \E g \in RequestSlugs : ProductViewSet_destroy(g, TRUE)
    \/ \E g \in RequestSlugs, viewer \in Viewers : ProductsBySubcategoryView_get(g, viewer)
    \/ \E g \in RequestSlugs : ProductRelatedView_get(g)
    \/ \E k \in DOMAIN cache : Expire(k)

SpecMove == InitCatalog /\ [][NextMove]_vars

\* the product-list keys of the subcategory a product is in before and after
\* a step
ListKeysOfProduct(pk) ==
    { ProductsBySubcategoryKey(SubcategorySlug(products[pk].subcategory)),
      ProductsBySubcategoryKey(SubcategorySlug(products'[pk].subcategory)) }

\* C26: when a product update through the API moves the product from one
\* subcategory to another, the cached product-list keys of both
\* subcategories are invalidated.
ProductMoveClearsBothLists ==
    [][\A pk \in DOMAIN products \cap DOMAIN products' :
          (handled'.op = "product_update"
             /\ products'[pk].subcategory # products[pk].subcategory)
          => ListKeysOfProduct(pk) \cap DOMAIN cache' = {}]_vars

(***************************************************************************)
(* Cached related-products lists                                           *)
(***************************************************************************)
\* the related-products entry of product pk lists only products that exist,
\* are in the subcategory of pk and are not pk
RelatedEntryCurrent(pk) ==
    LET cache_key == RelatedProductsKey(products[pk].slug) IN
    cache_key \in DOMAIN cache =>
        \A i \in 1..Len(cache[cache_key]) :
            /\ cache[cache_key][i] \in DOMAIN products
            /\ cache[cache_key][i] # pk
            /\ products[cache[cache_key][i]].subcategory = products[pk].subcategory

\* C27: a cached related-products entry of a product contains only products
\* that currently exist, belong to its current subcategory and are not the
\* product itself.
RelatedEntriesCurrent == \A pk \in DOMAIN products : RelatedEntryCurrent(pk)

(***************************************************************************)
(* Slugs under update requests                                             *)
(***************************************************************************)
\* the rows of a table that hold a non-empty slug before a step and a
\* different slug after it
Reslugged(rows, rowsAfter) ==
    { i \in DOMAIN rows \cap DOMAIN rowsAfter :
        rows[i].slug # Blank /\ rowsAfter[i].slug # rows[i].slug }

\* C28: no update request changes the stored slug of a Category, Subcategory
\* or Product that has been persisted with a non-empty slug.
SlugImmutableUnderUpdate ==
    [][/\ Reslugged(categories, categories') = {}
       /\ Reslugged(subcategories, subcategories') = {}
       /\ Reslugged(products, products') = {}]_vars

(***************************************************************************)
(* The collision loop of one save over a given table                       *)
(***************************************************************************)
\* the candidate of iteration n: base_slug, then f"{base_slug}-{counter}"
Token(base_slug, n) ==
    IF n = 0 THEN base_slug ELSE base_slug \o <<"-">> \o FormatInt(n)

\* the table changes between saves, not while the loop of a save runs
NextLoop ==
    \/ \E name \in NamesOfOneBase, slug \in {Blank, <<"f", "s", "-", "1">>} :
          saving[1].pc = "idle" /\ Category_create(name, slug)
    \/ \E pk \in DOMAIN categories : saving[1].pc = "idle" /\ Category_delete(pk)
    \/ \E name \in NamesOfOneBase : save_begin(1, "category", name, 0)
    \/ save_exists(1)
    \/ save_insert(1)
    \/ save_return(1)

SpecLoop == Init /\ [][NextLoop]_vars /\ WF_vars(save_exists(1))

\* the loop has ended at the first candidate no row holds
EndedAtFirstUnused ==
    saving[1].pc = "insert" =>
        /\ saving[1].slug = Token(saving[1].base_slug, saving[1].counter - 1)
        /\ saving[1].slug \notin SlugsExcluding(categories, 0)
        /\ \A m \in 0..(saving[1].counter - 2) :
              Token(saving[1].base_slug, m) \in SlugsExcluding(categories, 0)

\* C29: the collision search of a save terminates, whatever rows exist, and
\* it stops at the first of base, base-1, base-2, ... that no row holds.
SlugLoopTerminates ==
    /\ (saving[1].pc = "while") ~> (saving[1].pc = "insert")
    /\ []EndedAtFirstUnused

\* C29 witness: the loop has ended after passing two tokens that rows hold.
LoopPassedTwoTokens ==
    /\ saving[1].pc = "insert"
    /\ saving[1].counter >= 3
    /\ Cardinality(DOMAIN categories) >= 2

(***************************************************************************)
(* Health checks that overlap                                              *)
(***************************************************************************)
\* cache.get: the value of a key, None if the cache does not hold it
CacheGet(c, k) == IF k \in DOMAIN c THEN c[k] ELSE None

\* check_cache_health, cache.set(test_key, test_value, 60)
check_cache_health_set(p, victims) ==
    /\ running[p].pc = "idle"
    /\ victims \in Culls(cache)
    /\ cache' = LocMemSet(cache, HEALTH_KEY, HEALTH_VALUE, victims)
    /\ running' = [running EXCEPT ![p] = [pc |-> "get"]]
    /\ UNCHANGED <<banners, saving, health, caller, rendered, store, handled>>

\* check_cache_health, cached_value = cache.get(test_key)
check_cache_health_get(p) ==
    /\ running[p].pc = "get"
    /\ running' = [running EXCEPT ![p] =
          [pc |-> "delete", cached_value |-> CacheGet(cache, HEALTH_KEY)]]
    /\ UNCHANGED <<banners, saving, health, caller, rendered, store, cache, handled>>

\* check_cache_health, cache.delete(test_key)
check_cache_health_delete(p) ==
    /\ running[p].pc = "delete"
    /\ cache' = DeleteMany(cache, {HEALTH_KEY})
    /\ running' = [running EXCEPT ![p].pc = "return"]
    /\ UNCHANGED <<banners, saving, health, caller, rendered, store, handled>>

\* check_cache_health, is_working and the dict returned
check_cache_health_return(p) ==
    /\ running[p].pc = "return"
    /\ health' = Health(running[p].cached_value = HEALTH_VALUE)
    /\ running' = [running EXCEPT ![p] =
          [pc |-> "returned", working |-> running[p].cached_value = HEALTH_VALUE]]
    /\ UNCHANGED <<banners, saving, caller, rendered, store, cache, handled>>

\* the caller has the report; the process takes the next request
check_cache_health_done(p) ==
    /\ running[p].pc = "returned"
    /\ running' = [running EXCEPT ![p] = [pc |-> "idle"]]
    /\ UNCHANGED <<banners, saving, health, caller, rendered, store, cache, handled>>

NextOverlap ==
    \/ \E data \in NamedFs : CategoryViewSet_create(data, TRUE)
    \/ ProductViewSet_all_categories
    \/ \E p \in Procs, victims \in SUBSET DOMAIN cache : check_cache_health_set(p, victims)
    \/ \E p \in Procs : check_cache_health_get(p)
    \/ \E p \in Procs : check_cache_health_delete(p)
    \/ \E p \in Procs : check_cache_health_return(p)
    \/ \E p \in Procs : check_cache_health_done(p)

SpecOverlap == Init /\ [][NextOverlap]_vars

\* C30: when two health checks overlap on a working cache, both report
\* working=true, under every interleaving of their set, get and delete steps.
OverlappingChecksReportWorking ==
    \A p \in Procs : running[p].pc = "returned" => running[p].working

====
